---- MODULE Spec2Model ----
(***************************************************************************)
(* Cross-entity search and faceted filtering of ClaimGuardian-AI           *)
(* (search-service: globalSearch, filterPolicies, filterClaims,            *)
(* filterDocuments) over the Prisma record store (InsurancePolicy, Claim,  *)
(* Document).                                                              *)
(*                                                                         *)
(* Strings are sequences of one-character strings, so that trimming,      *)
(* splitting, case folding and substring search are computed and not      *)
(* assumed.  A SearchResult carries id, type and date; its title,          *)
(* description and link are display strings that no operation reads back.  *)
(***************************************************************************)
EXTENDS Integers, Sequences, FiniteSets, TLC

VARIABLES store, pc, req, searchTerms, results, total, calls, response, prev, http, bar, sessions

vars == <<store, pc, req, searchTerms, results, total, calls, response, prev, http, bar, sessions>>

\* a nullable column holds NULL or Some(v)
NULL == <<>>

Some(v) == <<v>>

(***************************************************************************)
(* Characters and strings                                                  *)
(***************************************************************************)
LowerLetters == <<"a","b","c","d","e","f","g","h","i","j","k","l","m",
                  "n","o","p","q","r","s","t","u","v","w","x","y","z">>

UpperLetters == <<"A","B","C","D","E","F","G","H","I","J","K","L","M",
                  "N","O","P","Q","R","S","T","U","V","W","X","Y","Z">>

\* /\s/ : the white space characters of the inputs
WhiteSpace == {" ", "\t"}

\* the upper-case letter of each lower-case letter, and the converse
UpperOf ==
  [c \in { LowerLetters[i] : i \in 1..26 } |->
     UpperLetters[CHOOSE i \in 1..26 : LowerLetters[i] = c]]

LowerOf ==
  [c \in { UpperLetters[i] : i \in 1..26 } |->
     LowerLetters[CHOOSE i \in 1..26 : UpperLetters[i] = c]]

ToUpperChar(c) == IF c \in DOMAIN UpperOf THEN UpperOf[c] ELSE c

ToLowerChar(c) == IF c \in DOMAIN LowerOf THEN LowerOf[c] ELSE c

\* String.prototype.toUpperCase
ToUpperCase(s) == [i \in 1..Len(s) |-> ToUpperChar(s[i])]

\* the case folding of a case-insensitive comparison
ToLowerCase(s) == [i \in 1..Len(s) |-> ToLowerChar(s[i])]

\* String.prototype.includes: needle occurs in hay as a contiguous substring
Includes(hay, needle) ==
  \E i \in 0..(Len(hay) - Len(needle)) :
    \A j \in 1..Len(needle) : hay[i + j] = needle[j]

\* Prisma { contains: term, mode: 'insensitive' } on a column value:
\* a NULL column contains nothing
ContainsInsensitive(value, term) ==
  /\ value # NULL
  /\ Includes(ToLowerCase(value[1]), ToLowerCase(term))

\* query.trim().split(/\s+/).filter(Boolean)
RECURSIVE SplitWs(_, _, _)
SplitWs(s, i, cur) ==
  IF i > Len(s)
  THEN IF cur = <<>> THEN <<>> ELSE <<cur>>
  ELSE IF s[i] \in WhiteSpace
       THEN IF cur = <<>>
            THEN SplitWs(s, i + 1, <<>>)
            ELSE <<cur>> \o SplitWs(s, i + 1, <<>>)
       ELSE SplitWs(s, i + 1, Append(cur, s[i]))

\* mutant: query.trim().split(/\s+/) without .filter(Boolean), which yields
\* [''] for a query without terms
TokenizeKeepEmpty(query) ==
  IF SplitWs(query, 1, <<>>) = <<>> THEN << <<>> >> ELSE SplitWs(query, 1, <<>>)

Tokenize(query) == SplitWs(query, 1, <<>>)

(***************************************************************************)
(* Keyword tables of the keyword inference                                 *)
(***************************************************************************)
\* /approved|rejected|paid|draft|submitted|review|closed/i, in the order of
\* the if-chain, each with the value it returns
StatusKeywords ==
  << [kw |-> <<"a","p","p","r","o","v","e","d">>,     val |-> "APPROVED"],
     [kw |-> <<"r","e","j","e","c","t","e","d">>,     val |-> "REJECTED"],
     [kw |-> <<"p","a","i","d">>,                     val |-> "PAID"],
     [kw |-> <<"d","r","a","f","t">>,                 val |-> "DRAFT"],
     [kw |-> <<"s","u","b","m","i","t","t","e","d">>, val |-> "SUBMITTED"],
     [kw |-> <<"r","e","v","i","e","w">>,             val |-> "UNDER_REVIEW"],
     [kw |-> <<"c","l","o","s","e","d">>,             val |-> "CLOSED"] >>

\* /policy|claim|identity|proof|estimate|invoice|receipt|photo/i
CategoryKeywords ==
  << [kw |-> <<"p","o","l","i","c","y">>,             val |-> "POLICY"],
     [kw |-> <<"c","l","a","i","m">>,                 val |-> "CLAIM"],
     [kw |-> <<"i","d","e","n","t","i","t","y">>,     val |-> "IDENTITY"],
     [kw |-> <<"p","r","o","o","f">>,                 val |-> "PROOF_OF_LOSS"],
     [kw |-> <<"e","s","t","i","m","a","t","e">>,     val |-> "ESTIMATE"],
     [kw |-> <<"i","n","v","o","i","c","e">>,         val |-> "INVOICE"],
     [kw |-> <<"r","e","c","e","i","p","t">>,         val |-> "RECEIPT"],
     [kw |-> <<"p","h","o","t","o">>,                 val |-> "PHOTO"] >>

\* mutant: the pattern has an alternative (zz) that the if-chain lacks
MatchesKeywordOrOther(table, term) ==
  \/ \E i \in 1..Len(table) : Includes(ToLowerCase(term), table[i].kw)
  \/ Includes(ToLowerCase(term), <<"z", "z">>)

\* term.match(/k1|k2|.../i): some alternative occurs in the term, ignoring case
MatchesKeyword(table, term) ==
  \E i \in 1..Len(table) : Includes(ToLowerCase(term), table[i].kw)

\* mutant: the if-chain tests the term as typed, without toUpperCase
InferValueCaseSensitive(table, dflt, term) ==
  LET hit(i) == Includes(term, ToUpperCase(table[i].kw))
  IN IF \E i \in 1..Len(table) : hit(i)
     THEN table[CHOOSE i \in 1..Len(table) :
                   hit(i) /\ \A j \in 1..(i - 1) : ~hit(j)].val
     ELSE dflt

\* mutant: the last if whose test succeeds decides
InferValueLastKeyword(table, dflt, term) ==
  LET upperTerm == ToUpperCase(term)
      hit(i) == Includes(upperTerm, ToUpperCase(table[i].kw))
  IN IF \E i \in 1..Len(table) : hit(i)
     THEN table[CHOOSE i \in 1..Len(table) :
                   hit(i) /\ \A j \in (i + 1)..Len(table) : ~hit(j)].val
     ELSE dflt

\* the .map callback: the value of the first if whose test
\* upperTerm.includes(KEYWORD) succeeds, the final return otherwise
InferValue(table, dflt, term) ==
  LET upperTerm == ToUpperCase(term)
      hit(i) == Includes(upperTerm, ToUpperCase(table[i].kw))
  IN IF \E i \in 1..Len(table) : hit(i)
     THEN table[CHOOSE i \in 1..Len(table) :
                   hit(i) /\ \A j \in 1..(i - 1) : ~hit(j)].val
     ELSE dflt

\* searchTerms.filter(term => term.match(...)).map(...): the values of `in`
InferredValues(table, dflt, terms) ==
  { InferValue(table, dflt, terms[i]) :
      i \in { j \in 1..Len(terms) : MatchesKeyword(table, terms[j]) } }

\* searchTerms.some(term => term.match(...)): the spread adds the enum condition
HasInferred(table, terms) ==
  \E i \in 1..Len(terms) : MatchesKeyword(table, terms[i])

(***************************************************************************)
(* Where clauses of globalSearch                                           *)
(***************************************************************************)
\* mutant: every term must occur in the field (AND over the terms)
createSearchConditionAll(value, terms) ==
  \A i \in 1..Len(terms) : ContainsInsensitive(value, terms[i])

\* createSearchCondition(field, terms) applied to the value of the field
createSearchCondition(value, terms) ==
  IF Len(terms) = 1
  THEN ContainsInsensitive(value, terms[1])
  ELSE \E i \in 1..Len(terms) : ContainsInsensitive(value, terms[i])

\* mutant: the list query of policies without the userId scope
PolicyListWhereAnyUser(userId, terms, r) ==
  \/ createSearchCondition(Some(r.policyNumber), terms)
  \/ createSearchCondition(Some(r.provider), terms)
  \/ createSearchCondition(r.description, terms)

\* where of prisma.insurancePolicy.findMany
PolicyListWhere(userId, terms, r) ==
  /\ r.userId = userId
  /\ \/ createSearchCondition(Some(r.policyNumber), terms)
     \/ createSearchCondition(Some(r.provider), terms)
     \/ createSearchCondition(r.description, terms)

\* where of prisma.insurancePolicy.count
PolicyCountWhere(userId, terms, r) ==
  /\ r.userId = userId
  /\ \/ createSearchCondition(Some(r.policyNumber), terms)
     \/ createSearchCondition(Some(r.provider), terms)
     \/ createSearchCondition(r.description, terms)

\* the spread element { status: { in: [...] } } of the claim queries
ClaimStatusCondition(terms, r) ==
  /\ HasInferred(StatusKeywords, terms)
  /\ r.status \in InferredValues(StatusKeywords, "DRAFT", terms)

\* mutant: the inferred status condition AND-ed with the text conditions
ClaimListWhereNarrowed(userId, terms, r) ==
  /\ r.userId = userId
  /\ \/ createSearchCondition(Some(r.claimNumber), terms)
     \/ createSearchCondition(Some(r.description), terms)
  /\ HasInferred(StatusKeywords, terms) =>
       r.status \in InferredValues(StatusKeywords, "DRAFT", terms)

\* where of prisma.claim.findMany
ClaimListWhere(userId, terms, r) ==
  /\ r.userId = userId
  /\ \/ createSearchCondition(Some(r.claimNumber), terms)
     \/ createSearchCondition(Some(r.description), terms)
     \/ ClaimStatusCondition(terms, r)

\* where of prisma.claim.count
ClaimCountWhere(userId, terms, r) ==
  /\ r.userId = userId
  /\ \/ createSearchCondition(Some(r.claimNumber), terms)
     \/ createSearchCondition(Some(r.description), terms)
     \/ ClaimStatusCondition(terms, r)

\* the spread element { documentType: { in: [...] } } of the document queries
DocumentTypeCondition(terms, r) ==
  /\ HasInferred(CategoryKeywords, terms)
  /\ r.documentType \in InferredValues(CategoryKeywords, "OTHER", terms)

\* where of extendedPrisma.document.findMany
DocumentListWhere(userId, terms, r) ==
  /\ r.userId = userId
  /\ \/ createSearchCondition(Some(r.fileName), terms)
     \/ createSearchCondition(r.description, terms)
     \/ DocumentTypeCondition(terms, r)

\* mutant: the count query of documents without the inferred documentType
DocumentCountWhereTextOnly(userId, terms, r) ==
  /\ r.userId = userId
  /\ \/ createSearchCondition(Some(r.fileName), terms)
     \/ createSearchCondition(r.description, terms)

\* where of extendedPrisma.document.count
DocumentCountWhere(userId, terms, r) ==
  /\ r.userId = userId
  /\ \/ createSearchCondition(Some(r.fileName), terms)
     \/ createSearchCondition(r.description, terms)
     \/ DocumentTypeCondition(terms, r)

ListWhere(kind, userId, terms, r) ==
  CASE kind = "policy"   -> PolicyListWhere(userId, terms, r)
    [] kind = "claim"    -> ClaimListWhere(userId, terms, r)
    [] kind = "document" -> DocumentListWhere(userId, terms, r)

CountWhere(kind, userId, terms, r) ==
  CASE kind = "policy"   -> PolicyCountWhere(userId, terms, r)
    [] kind = "claim"    -> ClaimCountWhere(userId, terms, r)
    [] kind = "document" -> DocumentCountWhere(userId, terms, r)

(***************************************************************************)
(* The record store: findMany and count of one partition                   *)
(***************************************************************************)
Min(a, b) == IF a < b THEN a ELSE b

SeqToSet(s) == { s[i] : i \in 1..Len(s) }

\* orderBy: { updatedAt: 'desc' }.  updatedAt is not unique, and the store
\* promises no order among rows with equal updatedAt: every arrangement of
\* the rows that descends by updatedAt is a possible answer.
RECURSIVE OrderedByUpdatedAtDesc(_)
OrderedByUpdatedAtDesc(S) ==
  IF S = {} THEN { <<>> }
  ELSE LET latest == { x \in S : \A y \in S : x.updatedAt >= y.updatedAt }
       IN UNION { { <<x>> \o t : t \in OrderedByUpdatedAtDesc(S \ {x}) } :
                  x \in latest }

\* skip / take applied to an ordered answer
Window(s, skip, take) ==
  IF skip >= Len(s) THEN <<>>
  ELSE SubSeq(s, skip + 1, Min(Len(s), skip + take))

\* the possible answers of findMany({ where, orderBy, skip, take })
FindMany(rows, skip, take) ==
  { Window(s, skip, take) : s \in OrderedByUpdatedAtDesc(rows) }

\* the answer of count({ where })
Count(rows) == Cardinality(rows)

(***************************************************************************)
(* Records of the three partitions (prisma/schema.prisma) and the inputs   *)
(***************************************************************************)
Users == {"u1", "u2"}

Kinds == <<"policy", "claim", "document">>

\* a policy row (InsurancePolicy): id, userId, policyNumber, provider,
\* description, insuranceType, isActive, coverageAmount, startDate, endDate,
\* updatedAt
Policy(id, u, num, prov, desc, type, act, amt, sd, ed, upd) ==
  [id |-> id, userId |-> u, policyNumber |-> num, provider |-> prov,
   description |-> desc, insuranceType |-> type, isActive |-> act,
   coverageAmount |-> amt, startDate |-> sd, endDate |-> ed, updatedAt |-> upd]

\* a claim row (Claim): id, userId, claimNumber, description, status,
\* policyId, incidentDate, damageAmount, updatedAt
Claim(id, u, num, desc, st, pol, inc, amt, upd) ==
  [id |-> id, userId |-> u, claimNumber |-> num, description |-> desc,
   status |-> st, policyId |-> pol, incidentDate |-> inc,
   damageAmount |-> amt, updatedAt |-> upd]

\* a document row (Document): id, userId, fileName, description,
\* documentType, policyId, claimId, uploadDate, isAnalyzed, updatedAt
Document(id, u, name, desc, type, pol, clm, upl, an, upd) ==
  [id |-> id, userId |-> u, fileName |-> name, description |-> desc,
   documentType |-> type, policyId |-> pol, claimId |-> clm,
   uploadDate |-> upl, isAnalyzed |-> an, updatedAt |-> upd]

Acme        == <<"A","c","m","e">>
Zen         == <<"Z","e","n">>
Pol1        == <<"P","O","L","-","1">>
Pol2        == <<"P","O","L","-","2">>
Pol3        == <<"P","O","L","-","3">>
Clm1        == <<"C","L","M","-","1">>
Clm2        == <<"C","L","M","-","2">>
Clm3        == <<"C","L","M","-","3">>
Clm4        == <<"C","L","M","-","4">>
Clm5        == <<"C","L","M","-","5">>
Clm6        == <<"C","L","M","-","6">>
Clm7        == <<"C","L","M","-","7">>
Clm8        == <<"C","L","M","-","8">>
WaterDamage == <<"W","a","t","e","r"," ","d","a","m","a","g","e">>
Damage      == <<"d","a","m","a","g","e">>
FireDamage  == <<"F","i","r","e"," ","d","a","m","a","g","e">>
WaterJpg    == <<"w","a","t","e","r",".","j","p","g">>
EstPdf      == <<"e","s","t",".","p","d","f">>
IdPng       == <<"i","d",".","p","n","g">>
RoofDamage  == <<"R","o","o","f"," ","D","A","M","A","G","E">>

\* the rows a partition may hold: rows of user u1 and a row of user u2
PolicyRows ==
  { Policy("p1", "u1", Pol1, Acme, NULL,              "HOME", TRUE,  100, 1, 5, 1),
    Policy("p2", "u1", Pol2, Zen,  Some(WaterDamage), "AUTO", FALSE, 300, 2, 4, 3),
    Policy("p3", "u2", Pol3, Acme, Some(Damage),      "HOME", TRUE,  100, 1, 5, 3) }

ClaimRows ==
  { Claim("c1", "u1", Clm1, WaterDamage, "APPROVED", "p1", 2, Some(50),  2),
    Claim("c2", "u1", Clm2, FireDamage,  "PAID",     "p2", 3, NULL,      3),
    Claim("c3", "u1", Clm3, RoofDamage,  "DRAFT",    "p1", 4, Some(200), 3),
    Claim("c4", "u2", Clm4, Damage,      "APPROVED", "p3", 2, Some(50),  4) }

DocumentRows ==
  { Document("d1", "u1", WaterJpg, NULL, "PHOTO", Some("p1"), Some("c1"), 2, FALSE, 3),
    Document("d2", "u1", EstPdf, Some(RoofDamage), "ESTIMATE", NULL, Some("c3"), 3, TRUE, 1),
    Document("d3", "u2", IdPng, Some(Damage), "IDENTITY", Some("p3"), NULL, 2, TRUE, 5) }

\* a partition holds the rows of u2 and any of the rows of u1
Partitions(rows) ==
  { S \in SUBSET rows : \A r \in rows : r.userId = "u2" => r \in S }

\* the relations of the schema: a claim has its policy, a document the policy
\* and the claim it names; the routes that write a claim or a document accept
\* a parent id only when the parent belongs to the same user
Related(s) ==
  /\ \A c \in s.claim :
       \E p \in s.policy : p.id = c.policyId /\ p.userId = c.userId
  /\ \A d \in s.document :
       /\ d.policyId # NULL =>
            \E p \in s.policy : p.id = d.policyId[1] /\ p.userId = d.userId
       /\ d.claimId # NULL =>
            \E c \in s.claim : c.id = d.claimId[1] /\ c.userId = d.userId

Stores ==
  { s \in [policy : Partitions(PolicyRows), claim : Partitions(ClaimRows),
           document : Partitions(DocumentRows)] : Related(s) }

\* a store with a claim of every ClaimStatus and a document of every
\* DocumentType, none of whose text fields holds a keyword
Note == <<"n","o","t","e">>

ScanPdf == <<"s","c","a","n",".","p","d","f">>

KeywordClaimRows ==
  { Claim("k1", "u1", Clm1, Note, "DRAFT",        "p1", 1, NULL, 1),
    Claim("k2", "u1", Clm2, Note, "SUBMITTED",    "p1", 1, NULL, 2),
    Claim("k3", "u1", Clm3, Note, "UNDER_REVIEW", "p1", 1, NULL, 3),
    Claim("k4", "u1", Clm4, Note, "APPROVED",     "p1", 1, NULL, 4),
    Claim("k5", "u1", Clm5, Note, "REJECTED",     "p1", 1, NULL, 5),
    Claim("k6", "u1", Clm6, Note, "PAID",         "p1", 1, NULL, 6),
    Claim("k7", "u1", Clm7, Note, "CLOSED",       "p1", 1, NULL, 6),
    Claim("k8", "u2", Clm8, Note, "APPROVED",     "p3", 1, NULL, 7) }

KeywordDocumentRows ==
  { Document("e1", "u1", ScanPdf, NULL, "POLICY",        NULL, NULL, 1, FALSE, 1),
    Document("e2", "u1", ScanPdf, NULL, "CLAIM",         NULL, NULL, 1, FALSE, 2),
    Document("e3", "u1", ScanPdf, NULL, "IDENTITY",      NULL, NULL, 1, FALSE, 3),
    Document("e4", "u1", ScanPdf, NULL, "PROOF_OF_LOSS", NULL, NULL, 1, FALSE, 4),
    Document("e5", "u1", ScanPdf, NULL, "ESTIMATE",      NULL, NULL, 1, FALSE, 5),
    Document("e6", "u1", ScanPdf, NULL, "INVOICE",       NULL, NULL, 1, FALSE, 6),
    Document("e7", "u1", ScanPdf, NULL, "RECEIPT",       NULL, NULL, 1, FALSE, 7),
    Document("e8", "u1", ScanPdf, NULL, "PHOTO",         NULL, NULL, 1, FALSE, 8),
    Document("e9", "u1", ScanPdf, NULL, "OTHER",         NULL, NULL, 1, FALSE, 8),
    Document("e0", "u2", ScanPdf, NULL, "PHOTO",         NULL, NULL, 1, FALSE, 9) }

KeywordStore ==
  [policy |-> { r \in PolicyRows : r.id \in {"p1", "p3"} },
   claim |-> KeywordClaimRows, document |-> KeywordDocumentRows]

\* one-term queries: each keyword of both tables as written, some in other
\* case, some inside a longer term, some terms holding two keywords
KeywordQueries ==
  { StatusKeywords[i].kw : i \in 1..Len(StatusKeywords) }
    \cup { CategoryKeywords[i].kw : i \in 1..Len(CategoryKeywords) }
    \cup { <<"A","p","p","r","o","v","e","d">>,
           <<"R","E","V","I","E","W">>,
           <<"u","n","P","a","i","d">>,
           <<"P","h","O","t","O","s">>,
           <<"p","r","o","o","f","-","1">>,
           <<"p","a","i","d","c","l","o","s","e","d">>,
           <<"c","l","o","s","e","d","P","a","i","d">>,
           <<"p","h","o","t","o","c","l","a","i","m">> }

\* query strings: empty, white space only, one term, a term and a status
\* keyword, two terms in surrounding white space, a category keyword and a
\* term no row contains, that term alone
Queries ==
  { <<>>,
    <<" ", "\t", " ">>,
    Damage,
    <<"D","a","m","a","g","e"," ","p","a","i","d">>,
    <<" ","c","l","m"," ","\t","w","a","t","e","r"," ">>,
    <<"p","h","o","t","o"," ","z","z">>,
    <<"z","z">> }

\* types: the default, single kinds, pairs, a kind named twice, none
TypeLists ==
  { <<"policy">>, <<"claim">>, <<"document">>, <<"policy", "claim">>,
    <<"document", "claim">>, <<"claim", "claim">>, <<>> }

\* the types argument: not given, or a list
TypeArgs == { NULL } \cup { Some(t) : t \in TypeLists }

MaxPage == 2

MaxLimit == 2

(***************************************************************************)
(* globalSearch                                                            *)
(***************************************************************************)
NoRequest == [op |-> "none"]

NoResponse == [status |-> "none"]

\* no GET /search request is being handled
NoHttp == [state |-> "none"]

\* the GlobalSearchBar component before it is mounted: the initial values of
\* its useState and useRef hooks, no debounce timer, no request sent
NoBar == [mounted |-> FALSE, query |-> <<>>, timer |-> NULL, ref |-> NULL, fetches |-> <<>>, searchResults |-> <<>>, isResultsOpen |-> FALSE, isSearching |-> FALSE, error |-> NULL]

\* the session table before any session was created, no createSession call
\* under way, the clock at 0
NoSessions == [rows |-> {}, procs |-> <<>>, now |-> 0, created |-> 0]

\* types = ['policy', 'claim', 'document'] when the argument is not given
DefaultTypes == <<"policy", "claim", "document">>

\* limit = 20
DefaultLimit == 20

\* page = 1
DefaultPage == 1

\* mutant: every kind is searched whatever types holds
TypesIncludeAll(types, kind) == TRUE

\* types.includes(kind)
TypesInclude(types, kind) == \E i \in 1..Len(types) : types[i] = kind

\* const skip = (page - 1) * limit
SkipOf(r) == (r.page - 1) * r.limit

\* mutant: the page offset is passed to the store for every types list
StoreSkipAlways(r) == SkipOf(r)

\* skip: types.length === 1 ? skip : 0
StoreSkip(r) == IF Len(r.types) = 1 THEN SkipOf(r) ELSE 0

\* mutant: every kind is fetched up to the end of the requested page
StoreTakeToPageEnd(r) == r.page * r.limit

\* take: limit
StoreTake(r) == r.limit

\* the element of results built from a row
ToResult(kind, row) == [id |-> row.id, type |-> kind, date |-> row.updatedAt]

MapResults(kind, rows) == [i \in 1..Len(rows) |-> ToResult(kind, rows[i])]

\* mutant: a sort that puts an element before the elements of equal date
RECURSIVE InsertBeforeEqualDate(_, _)
InsertBeforeEqualDate(sorted, x) ==
  IF sorted = <<>> THEN <<x>>
  ELSE IF Head(sorted).date > x.date
       THEN <<Head(sorted)>> \o InsertBeforeEqualDate(Tail(sorted), x)
       ELSE <<x>> \o sorted

\* results.sort((a, b) => b.date.getTime() - a.date.getTime()): a stable sort
RECURSIVE InsertByDateDesc(_, _)
InsertByDateDesc(sorted, x) ==
  IF sorted = <<>> THEN <<x>>
  ELSE IF Head(sorted).date >= x.date
       THEN <<Head(sorted)>> \o InsertByDateDesc(Tail(sorted), x)
       ELSE <<x>> \o sorted

RECURSIVE SortByDateDesc(_)
SortByDateDesc(s) ==
  IF s = <<>> THEN <<>>
  ELSE InsertByDateDesc(SortByDateDesc(SubSeq(s, 1, Len(s) - 1)), s[Len(s)])

\* Array.prototype.slice(start, end)
Slice(s, start, end) ==
  IF start >= Len(s) THEN <<>> ELSE SubSeq(s, start + 1, Min(Len(s), end))

\* mutant: the merged list is sliced for every types list
MergedPageSliced(r, res) ==
  Slice(SortByDateDesc(res), SkipOf(r), SkipOf(r) + r.limit)

\* mutant: the merged list is sliced in fetch order, without the sort
MergedPageUnsorted(r, res) ==
  IF Len(r.types) > 1
  THEN Slice(res, SkipOf(r), SkipOf(r) + r.limit)
  ELSE res

\* the sort and the slice before the return
MergedPage(r, res) ==
  LET sorted == SortByDateDesc(res)
  IN IF Len(r.types) > 1
     THEN Slice(sorted, SkipOf(r), SkipOf(r) + r.limit)
     ELSE sorted

\* the findMany and count calls of one kind, in the order they are issued
IssuedCalls(kind, r) ==
  << [op |-> "findMany", model |-> kind, skip |-> StoreSkip(r), take |-> StoreTake(r)],
     [op |-> "count", model |-> kind] >>

\* globalSearch runs from the k-th `if (types.includes(...))` to its next
\* await, or to the return when no further kind is requested
Advance(k, r, res, tot) ==
  IF \E j \in k..3 : TypesInclude(r.types, Kinds[j])
  THEN LET n == CHOOSE j \in k..3 :
                  /\ TypesInclude(r.types, Kinds[j])
                  /\ \A i \in k..(j - 1) : ~TypesInclude(r.types, Kinds[i])
       IN /\ pc' = Kinds[n]
          /\ calls' = calls \o IssuedCalls(Kinds[n], r)
          /\ results' = res
          /\ total' = tot
          /\ response' = response
  ELSE /\ pc' = "done"
       /\ calls' = calls
       /\ results' = MergedPage(r, res)
       /\ total' = tot
       /\ response' = [status |-> "returned",
                       results |-> MergedPage(r, res), total |-> tot]

\* the call of globalSearch up to its first await; an argument that is not
\* given (NULL) takes its default
GlobalSearch(query, userId, typesArg, limitArg, pageArg) ==
  /\ pc = "idle"
  /\ LET r == [op |-> "globalSearch", query |-> query, userId |-> userId,
               typesArg |-> typesArg,
               types |-> IF typesArg = NULL THEN DefaultTypes ELSE typesArg[1],
               limit |-> IF limitArg = NULL THEN DefaultLimit ELSE limitArg[1],
               page |-> IF pageArg = NULL THEN DefaultPage ELSE pageArg[1]]
     IN /\ req' = r
        /\ searchTerms' = Tokenize(query)
        /\ IF Len(Tokenize(query)) = 0
           THEN /\ pc' = "done"
                /\ response' = [status |-> "returned", results |-> <<>>, total |-> 0]
                /\ UNCHANGED <<results, total, calls>>
           ELSE Advance(1, r, <<>>, 0)
  /\ UNCHANGED <<store, prev, bar, sessions>>

\* the rows of a partition that satisfy the list query's where
ListRows(kind) ==
  { r \in store[kind] : ListWhere(kind, req.userId, searchTerms, r) }

\* mutant: the total counts the rows that were fetched (total += rows.length)
CountRowsFetched(kind) ==
  SeqToSet(CHOOSE w \in FindMany(ListRows(kind), StoreSkip(req), StoreTake(req)) : TRUE)

\* the rows of a partition that satisfy the count query's where
CountRows(kind) ==
  { r \in store[kind] : CountWhere(kind, req.userId, searchTerms, r) }

\* await Promise.all([list, count]) of the k-th kind fulfils
Resolve(k) ==
  /\ pc = Kinds[k]
  /\ \E rows \in FindMany(ListRows(Kinds[k]), StoreSkip(req), StoreTake(req)) :
       Advance(k + 1, req, results \o MapResults(Kinds[k], rows),
               total + Count(CountRows(Kinds[k])))
  /\ UNCHANGED <<store, req, searchTerms, prev, http, bar, sessions>>

ResolvePolicies == Resolve(1)

ResolveClaims == Resolve(2)

ResolveDocuments == Resolve(3)

\* mutant: a failed pair of queries is issued once more
RejectRetry ==
  /\ pc \in {"policy", "claim", "document"}
  /\ Len(calls) < 8
  /\ calls' = calls \o IssuedCalls(pc, req)
  /\ UNCHANGED <<store, pc, req, searchTerms, results, total, response, prev, http, bar, sessions>>

\* await Promise.all([...]) rejects: a store query failed and the function throws
Reject ==
  /\ pc \in {"policy", "claim", "document", "filter"}
  /\ pc' = "failed"
  /\ response' = [status |-> "thrown"]
  /\ UNCHANGED <<store, req, searchTerms, results, total, calls, prev, http, bar, sessions>>

\* the caller has the outcome; the next request starts afresh
Return ==
  /\ pc \in {"done", "failed"}
  /\ pc' = "idle"
  /\ req' = NoRequest
  /\ searchTerms' = <<>>
  /\ results' = <<>>
  /\ total' = 0
  /\ calls' = <<>>
  /\ response' = NoResponse
  /\ http' = NoHttp
  /\ UNCHANGED <<store, prev, bar, sessions>>

(***************************************************************************)
(* filterPolicies, filterClaims, filterDocuments                           *)
(***************************************************************************)
\* mutant: `if (filters.x)`, so that a list supplied empty admits no value
GivenListSupplied(opt) == opt # NULL

\* `list && list.length > 0`: the list is given and not empty
GivenList(opt) == opt # NULL /\ Len(opt[1]) > 0

\* `if (filters.policyId)`: the string is given and not empty
GivenId(opt) == opt # NULL /\ opt[1] # ""

\* mutant: `if (filters.isActive)`, so that a supplied false constrains nothing
PolicyFilterWhereTruthyActive(userId, f, r) ==
  /\ r.userId = userId
  /\ GivenList(f.insuranceType) => r.insuranceType \in SeqToSet(f.insuranceType[1])
  /\ GivenList(f.provider) => r.provider \in SeqToSet(f.provider[1])
  /\ (f.isActive # NULL /\ f.isActive[1]) => r.isActive = f.isActive[1]
  /\ f.minAmount # NULL => r.coverageAmount >= f.minAmount[1]
  /\ f.maxAmount # NULL => r.coverageAmount <= f.maxAmount[1]
  /\ f.startAfter # NULL => r.startDate >= f.startAfter[1]
  /\ f.endBefore # NULL => r.endDate <= f.endBefore[1]

\* the where object filterPolicies builds, applied to row r
PolicyFilterWhere(userId, f, r) ==
  /\ r.userId = userId
  /\ GivenList(f.insuranceType) => r.insuranceType \in SeqToSet(f.insuranceType[1])
  /\ GivenList(f.provider) => r.provider \in SeqToSet(f.provider[1])
  /\ f.isActive # NULL => r.isActive = f.isActive[1]
  /\ f.minAmount # NULL => r.coverageAmount >= f.minAmount[1]
  /\ f.maxAmount # NULL => r.coverageAmount <= f.maxAmount[1]
  /\ f.startAfter # NULL => r.startDate >= f.startAfter[1]
  /\ f.endBefore # NULL => r.endDate <= f.endBefore[1]

\* mutant: a supplied policyId replaces the user scope of the claim filter
ClaimFilterWhereByParent(userId, f, r) ==
  /\ GivenId(f.policyId) \/ r.userId = userId
  /\ GivenList(f.status) => r.status \in SeqToSet(f.status[1])
  /\ GivenId(f.policyId) => r.policyId = f.policyId[1]
  /\ f.incidentDateFrom # NULL => r.incidentDate >= f.incidentDateFrom[1]
  /\ f.incidentDateTo # NULL => r.incidentDate <= f.incidentDateTo[1]
  /\ f.minAmount # NULL =>
       r.damageAmount # NULL /\ r.damageAmount[1] >= f.minAmount[1]
  /\ f.maxAmount # NULL =>
       r.damageAmount # NULL /\ r.damageAmount[1] <= f.maxAmount[1]

\* the where object filterClaims builds; a NULL damageAmount satisfies no bound
ClaimFilterWhere(userId, f, r) ==
  /\ r.userId = userId
  /\ GivenList(f.status) => r.status \in SeqToSet(f.status[1])
  /\ GivenId(f.policyId) => r.policyId = f.policyId[1]
  /\ f.incidentDateFrom # NULL => r.incidentDate >= f.incidentDateFrom[1]
  /\ f.incidentDateTo # NULL => r.incidentDate <= f.incidentDateTo[1]
  /\ f.minAmount # NULL =>
       r.damageAmount # NULL /\ r.damageAmount[1] >= f.minAmount[1]
  /\ f.maxAmount # NULL =>
       r.damageAmount # NULL /\ r.damageAmount[1] <= f.maxAmount[1]

\* the where object filterDocuments builds; a NULL parent id equals no id
DocumentFilterWhere(userId, f, r) ==
  /\ r.userId = userId
  /\ GivenList(f.documentType) => r.documentType \in SeqToSet(f.documentType[1])
  /\ GivenId(f.policyId) => r.policyId = Some(f.policyId[1])
  /\ GivenId(f.claimId) => r.claimId = Some(f.claimId[1])
  /\ f.isAnalyzed # NULL => r.isAnalyzed = f.isAnalyzed[1]
  /\ f.uploadDateFrom # NULL => r.uploadDate >= f.uploadDateFrom[1]
  /\ f.uploadDateTo # NULL => r.uploadDate <= f.uploadDateTo[1]

FilterWhere(kind, userId, f, r) ==
  CASE kind = "policy"   -> PolicyFilterWhere(userId, f, r)
    [] kind = "claim"    -> ClaimFilterWhere(userId, f, r)
    [] kind = "document" -> DocumentFilterWhere(userId, f, r)

\* mutant: const skip = page * pageSize
FilterSkipFromPage(r) == r.page * r.pageSize

\* const skip = (page - 1) * pageSize
FilterSkip(r) == (r.page - 1) * r.pageSize

\* a filter function up to its await: the where is built and both queries
\* are issued
Filter(kind, userId, f, page, pageSize) ==
  /\ pc = "idle"
  /\ LET r == [op |-> "filter", kind |-> kind, userId |-> userId,
               filters |-> f, page |-> page, pageSize |-> pageSize]
     IN /\ req' = r
        /\ calls' = << [op |-> "findMany", model |-> kind,
                        skip |-> FilterSkip(r), take |-> pageSize],
                       [op |-> "count", model |-> kind] >>
  /\ pc' = "filter"
  /\ UNCHANGED <<store, searchTerms, results, total, response, prev, http, bar, sessions>>

FilterPolicies(userId, f, page, pageSize) ==
  Filter("policy", userId, f, page, pageSize)

FilterClaims(userId, f, page, pageSize) ==
  Filter("claim", userId, f, page, pageSize)

FilterDocuments(userId, f, page, pageSize) ==
  Filter("document", userId, f, page, pageSize)

\* the rows of the partition that satisfy the where of the filter request
FilterRows ==
  { r \in store[req.kind] : FilterWhere(req.kind, req.userId, req.filters, r) }

\* mutant: the filter stamps the rows it returns (updatedAt := 9)
ResolveFilterStamping ==
  /\ pc = "filter"
  /\ \E rows \in FindMany(FilterRows, FilterSkip(req), req.pageSize) :
       /\ response' = [status |-> "returned", items |-> rows,
                       total |-> Count(FilterRows)]
       /\ store' = [store EXCEPT ![req.kind] =
                      { IF r \in SeqToSet(rows) THEN [r EXCEPT !.updatedAt = 9] ELSE r :
                          r \in store[req.kind] }]
  /\ pc' = "done"
  /\ UNCHANGED <<req, searchTerms, results, total, calls, prev, http, bar, sessions>>

\* await Promise.all([findMany, count]) fulfils and the function returns
ResolveFilter ==
  /\ pc = "filter"
  /\ \E rows \in FindMany(FilterRows, FilterSkip(req), req.pageSize) :
       response' = [status |-> "returned", items |-> rows,
                    total |-> Count(FilterRows)]
  /\ pc' = "done"
  /\ UNCHANGED <<store, req, searchTerms, results, total, calls, prev, http, bar, sessions>>

\* the filter arguments: every field not given, or given with one of a few
\* values, at most n fields given at once
Given(f) == Cardinality({ k \in DOMAIN f : f[k] # NULL })

PolicyFilterArgs(n) ==
  { f \in [insuranceType : {NULL, Some(<<>>), Some(<<"HOME">>), Some(<<"AUTO", "HOME">>)},
           provider      : {NULL, Some(<<Acme>>)},
           isActive      : {NULL, Some(TRUE), Some(FALSE)},
           minAmount     : {NULL, Some(100), Some(200)},
           maxAmount     : {NULL, Some(100)},
           startAfter    : {NULL, Some(2)},
           endBefore     : {NULL, Some(4)}] : Given(f) <= n }

ClaimFilterArgs(n) ==
  { f \in [status           : {NULL, Some(<<>>), Some(<<"PAID", "DRAFT">>)},
           policyId         : {NULL, Some(""), Some("p1"), Some("p3"), Some("p9")},
           incidentDateFrom : {NULL, Some(3)},
           incidentDateTo   : {NULL, Some(3)},
           minAmount        : {NULL, Some(50)},
           maxAmount        : {NULL, Some(50), Some(300)}] : Given(f) <= n }

DocumentFilterArgs(n) ==
  { f \in [documentType   : {NULL, Some(<<>>), Some(<<"PHOTO">>)},
           policyId       : {NULL, Some("p1"), Some("p3")},
           claimId        : {NULL, Some(""), Some("c3"), Some("c4")},
           uploadDateFrom : {NULL, Some(3)},
           uploadDateTo   : {NULL, Some(2)},
           isAnalyzed     : {NULL, Some(TRUE), Some(FALSE)}] : Given(f) <= n }

MaxGiven == 1

(***************************************************************************)
(* Specification                                                           *)
(***************************************************************************)
Init ==
  /\ store \in Stores
  /\ pc = "idle"
  /\ req = NoRequest
  /\ searchTerms = <<>>
  /\ results = <<>>
  /\ total = 0
  /\ calls = <<>>
  /\ response = NoResponse
  /\ prev = NoRequest
  /\ http = NoHttp
  /\ bar = NoBar
  /\ sessions = NoSessions

Next ==
  \/ \E q \in Queries, u \in Users, t \in TypeArgs,
        l \in 1..MaxLimit, p \in 1..MaxPage :
          GlobalSearch(q, u, t, Some(l), Some(p)) /\ UNCHANGED http
  \/ ResolvePolicies
  \/ ResolveClaims
  \/ ResolveDocuments
  \/ /\ pc = "idle"
     /\ \E u \in Users, f \in PolicyFilterArgs(MaxGiven),
           p \in 1..MaxPage, n \in 1..MaxLimit : FilterPolicies(u, f, p, n)
  \/ /\ pc = "idle"
     /\ \E u \in Users, f \in ClaimFilterArgs(MaxGiven),
           p \in 1..MaxPage, n \in 1..MaxLimit : FilterClaims(u, f, p, n)
  \/ /\ pc = "idle"
     /\ \E u \in Users, f \in DocumentFilterArgs(MaxGiven),
           p \in 1..MaxPage, n \in 1..MaxLimit : FilterDocuments(u, f, p, n)
  \/ ResolveFilter
  \/ Reject
  \/ Return

Spec == Init /\ [][Next]_vars

(***************************************************************************)
(* The matching of rows: searches with the default limit and page over the *)
(* stores above and the keyword store, with the queries above and the      *)
(* keyword queries                                                         *)
(***************************************************************************)
InitMatch ==
  /\ store \in Stores \cup { KeywordStore }
  /\ pc = "idle"
  /\ req = NoRequest
  /\ searchTerms = <<>>
  /\ results = <<>>
  /\ total = 0
  /\ calls = <<>>
  /\ response = NoResponse
  /\ prev = NoRequest
  /\ http = NoHttp
  /\ bar = NoBar
  /\ sessions = NoSessions

NextMatch ==
  \/ \E q \in Queries \cup KeywordQueries, u \in Users,
        t \in { NULL, Some(<<"claim">>), Some(<<"document">>) } :
          GlobalSearch(q, u, t, NULL, NULL) /\ UNCHANGED http
  \/ ResolvePolicies
  \/ ResolveClaims
  \/ ResolveDocuments
  \/ Return

SpecMatch == InitMatch /\ [][NextMatch]_vars

(***************************************************************************)
(* Paging: a single-kind search, then the same search for the next page    *)
(***************************************************************************)
\* the caller keeps the outcome of the page
ReturnKeep ==
  /\ pc = "done"
  /\ prev = NoRequest
  /\ prev' = [op |-> "kept", req |-> req, response |-> response]
  /\ pc' = "idle"
  /\ req' = NoRequest
  /\ searchTerms' = <<>>
  /\ results' = <<>>
  /\ total' = 0
  /\ calls' = <<>>
  /\ response' = NoResponse
  /\ UNCHANGED <<store, http, bar, sessions>>

FirstPage ==
  /\ prev = NoRequest
  /\ \E q \in Queries, u \in Users, k \in {"policy", "claim", "document"},
        l \in 1..MaxLimit, p \in 1..MaxPage :
          GlobalSearch(q, u, Some(<<k>>), Some(l), Some(p))
  /\ UNCHANGED http

\* the same query, kind and limit, page + 1
FollowingPage ==
  /\ prev # NoRequest
  /\ GlobalSearch(prev.req.query, prev.req.userId, prev.req.typesArg,
                  Some(prev.req.limit), Some(prev.req.page + 1))
  /\ UNCHANGED http

NextPaging ==
  \/ FirstPage
  \/ FollowingPage
  \/ ResolvePolicies
  \/ ResolveClaims
  \/ ResolveDocuments
  \/ ReturnKeep

SpecPaging == Init /\ [][NextPaging]_vars

(***************************************************************************)
(* GET /search: the route handler around globalSearch                      *)
(***************************************************************************)
\* ['policy', 'claim', 'document'], each kind with its spelling
KindNames ==
  [policy |-> <<"p","o","l","i","c","y">>, claim |-> <<"c","l","a","i","m">>, document |-> <<"d","o","c","u","m","e","n","t">>]

\* typesParam.split(','): empty tokens are kept
RECURSIVE SplitComma(_, _, _)
SplitComma(s, i, cur) ==
  IF i > Len(s)
  THEN <<cur>>
  ELSE IF s[i] = ","
       THEN <<cur>> \o SplitComma(s, i + 1, <<>>)
       ELSE SplitComma(s, i + 1, Append(cur, s[i]))

\* .filter(type => ['policy', 'claim', 'document'].includes(type))
RECURSIVE KeepKinds(_)
KeepKinds(tokens) ==
  IF tokens = <<>>
  THEN <<>>
  ELSE (IF \E k \in DOMAIN KindNames : KindNames[k] = Head(tokens)
        THEN << CHOOSE k \in DOMAIN KindNames : KindNames[k] = Head(tokens) >>
        ELSE <<>>) \o KeepKinds(Tail(tokens))

\* mutant: a list from which every token was dropped falls back to all kinds
ParseTypesDefaultWhenNoneLeft(typesParam) ==
  IF typesParam = NULL \/ typesParam[1] = <<>>
       \/ KeepKinds(SplitComma(typesParam[1], 1, <<>>)) = <<>>
  THEN DefaultTypes
  ELSE KeepKinds(SplitComma(typesParam[1], 1, <<>>))

\* typesParam ? typesParam.split(',').filter(...) : ['policy','claim','document']
\* (the parameter is null when absent, and the empty string is falsy)
ParseTypes(typesParam) ==
  IF typesParam = NULL \/ typesParam[1] = <<>>
  THEN DefaultTypes
  ELSE KeepKinds(SplitComma(typesParam[1], 1, <<>>))

Digits == <<"0", "1", "2", "3", "4", "5", "6", "7", "8", "9">>

DigitValue(c) == (CHOOSE d \in 1..10 : Digits[d] = c) - 1

\* parseInt of a string of decimal digits
RECURSIVE ParseDigits(_, _)
ParseDigits(s, acc) ==
  IF s = <<>> THEN acc ELSE ParseDigits(Tail(s), 10 * acc + DigitValue(Head(s)))

\* parseInt(url.searchParams.get(name) || dflt)
ParseIntParam(param, dflt) ==
  IF param = NULL \/ param[1] = <<>> THEN dflt ELSE ParseDigits(param[1], 0)

\* Math.ceil(total / limit), limit > 0
CeilDiv(a, b) == (a + b - 1) \div b

\* no session, or a session without user e-mail: 401
GetNotAuthenticated ==
  /\ pc = "idle"
  /\ http = NoHttp
  /\ http' = [state |-> "responded", status |-> 401,
              body |-> [error |-> "Not authenticated"]]
  /\ UNCHANGED <<store, pc, req, searchTerms, results, total, calls, response, prev, bar, sessions>>

\* prisma.user.findUnique finds no user of the session's e-mail: 404
GetUserNotFound ==
  /\ pc = "idle"
  /\ http = NoHttp
  /\ http' = [state |-> "responded", status |-> 404,
              body |-> [error |-> "User not found"]]
  /\ UNCHANGED <<store, pc, req, searchTerms, results, total, calls, response, prev, bar, sessions>>

\* getServerSession or prisma.user.findUnique throws: the catch answers 500
GetLookupFails ==
  /\ pc = "idle"
  /\ http = NoHttp
  /\ http' = [state |-> "responded", status |-> 500,
              body |-> [error |-> "An error occurred while searching"]]
  /\ UNCHANGED <<store, pc, req, searchTerms, results, total, calls, response, prev, bar, sessions>>

\* the handler of an authenticated user up to the await of globalSearch
GetSearch(userId, qParam, typesParam, pageParam, limitParam) ==
  /\ http = NoHttp
  /\ GlobalSearch(IF qParam = NULL THEN <<>> ELSE qParam[1], userId,
                  Some(ParseTypes(typesParam)),
                  Some(ParseIntParam(limitParam, 20)),
                  Some(ParseIntParam(pageParam, 1)))
  /\ http' = [state |-> "searching", typesParam |-> typesParam,
              page |-> ParseIntParam(pageParam, 1),
              limit |-> ParseIntParam(limitParam, 20)]

\* globalSearch returned: results and pagination are sent
GetRespond ==
  /\ http.state = "searching"
  /\ pc = "done"
  /\ http' = [state |-> "responded", status |-> 200,
              typesParam |-> http.typesParam,
              body |-> [results |-> response.results,
                        pagination |->
                          [total |-> response.total, page |-> http.page,
                           limit |-> http.limit,
                           totalPages |-> CeilDiv(response.total, http.limit)]]]
  /\ UNCHANGED <<store, pc, req, searchTerms, results, total, calls, response, prev, bar, sessions>>

\* mutant: the catch answers 200 with the results of the kinds that succeeded
GetErrorPartialResults ==
  /\ http.state = "searching"
  /\ pc = "failed"
  /\ http' = [state |-> "responded", status |-> 200,
              typesParam |-> http.typesParam,
              body |-> [results |-> results,
                        pagination |->
                          [total |-> total, page |-> http.page,
                           limit |-> http.limit,
                           totalPages |-> CeilDiv(total, http.limit)]]]
  /\ UNCHANGED <<store, pc, req, searchTerms, results, total, calls, response, prev, bar, sessions>>

\* globalSearch threw: the catch logs the error and answers 500
GetError ==
  /\ http.state = "searching"
  /\ pc = "failed"
  /\ http' = [state |-> "responded", status |-> 500,
              typesParam |-> http.typesParam,
              body |-> [error |-> "An error occurred while searching"]]
  /\ UNCHANGED <<store, pc, req, searchTerms, results, total, calls, response, prev, bar, sessions>>

\* the response is sent; the next request starts afresh
Finish ==
  /\ http.state = "responded"
  /\ pc' = "idle"
  /\ req' = NoRequest
  /\ searchTerms' = <<>>
  /\ results' = <<>>
  /\ total' = 0
  /\ calls' = <<>>
  /\ response' = NoResponse
  /\ http' = NoHttp
  /\ UNCHANGED <<store, prev, bar, sessions>>

\* values of the types parameter
TypesParams ==
  { NULL, Some(<<>>), Some(<<"c","l","a","i","m">>), Some(<<"p","o","l","i","c","y">> \o <<",">> \o <<"c","l","a","i","m">>),
    Some(<<"c","l","a","i","m">> \o <<",">> \o <<"c","l","a","i","m">>), Some(<<"f","o","o">>),
    Some(<<"f","o","o",",">> \o <<"d","o","c","u","m","e","n","t">>), Some(<<"C">> \o Tail(<<"c","l","a","i","m">>)),
    Some(<<",">>), Some(<<"d","o","c","u","m","e","n","t">> \o <<",">> \o <<"p","o","l","i","c","y">> \o <<",">> \o <<"c","l","a","i","m">>) }

QueryParams == { NULL, Some(<<"d","a","m","a","g","e">>), Some(<<" ">>) }

PageParams == { NULL, Some(<<"2">>) }

LimitParams == { NULL, Some(<<"1">>), Some(<<"0","2">>) }

NextRoute ==
  \/ GetNotAuthenticated
  \/ GetUserNotFound
  \/ GetLookupFails
  \/ \E u \in Users, q \in QueryParams, t \in TypesParams,
        p \in PageParams, l \in LimitParams : GetSearch(u, q, t, p, l)
  \/ ResolvePolicies
  \/ ResolveClaims
  \/ ResolveDocuments
  \/ Reject
  \/ GetRespond
  \/ GetError
  \/ Finish

SpecRoute == Init /\ [][NextRoute]_vars

(***************************************************************************)
(* Filtering: a filter request, then the identical request once more       *)
(***************************************************************************)
\* the number of filter fields given at once
FilterGiven == 2

\* stores with all policies and claims and any of the documents
FilterStores == { s \in Stores : s.policy = PolicyRows /\ s.claim = ClaimRows }

InitFilter ==
  /\ store \in FilterStores
  /\ pc = "idle"
  /\ req = NoRequest
  /\ searchTerms = <<>>
  /\ results = <<>>
  /\ total = 0
  /\ calls = <<>>
  /\ response = NoResponse
  /\ prev = NoRequest
  /\ http = NoHttp
  /\ bar = NoBar
  /\ sessions = NoSessions

\* the caller repeats the request it has kept
FilterAgain ==
  /\ prev # NoRequest
  /\ Filter(prev.req.kind, prev.req.userId, prev.req.filters,
            prev.req.page, prev.req.pageSize)

NextFilter ==
  \/ /\ prev = NoRequest
     /\ pc = "idle"
     /\ \E u \in Users, f \in PolicyFilterArgs(FilterGiven),
           p \in 1..MaxPage, n \in 1..MaxLimit : FilterPolicies(u, f, p, n)
  \/ /\ prev = NoRequest
     /\ pc = "idle"
     /\ \E u \in Users, f \in ClaimFilterArgs(FilterGiven),
           p \in 1..MaxPage, n \in 1..MaxLimit : FilterClaims(u, f, p, n)
  \/ /\ prev = NoRequest
     /\ pc = "idle"
     /\ \E u \in Users, f \in DocumentFilterArgs(FilterGiven),
           p \in 1..MaxPage, n \in 1..MaxLimit : FilterDocuments(u, f, p, n)
  \/ FilterAgain
  \/ ResolveFilter
  \/ Reject
  \/ ReturnKeep
  \/ Return

SpecFilter == InitFilter /\ [][NextFilter]_vars

(***************************************************************************)
(* What the claims speak of                                                *)
(***************************************************************************)
RequestedKinds == { req.types[i] : i \in 1..Len(req.types) }

\* the query holds no term: it is empty or white space only
BlankQuery == \A i \in 1..Len(req.query) : req.query[i] \in WhiteSpace

SearchReturned ==
  req.op = "globalSearch" /\ pc = "done" /\ response.status = "returned"

FilterReturned ==
  req.op = "filter" /\ pc = "done" /\ response.status = "returned"

\* the designated text fields of a kind, as column values of row r
TextColumns(kind, r) ==
  CASE kind = "policy"   -> { Some(r.policyNumber), Some(r.provider), r.description }
    [] kind = "claim"    -> { Some(r.claimNumber), Some(r.description) }
    [] kind = "document" -> { Some(r.fileName), r.description }

\* term appears in the column value as a substring, letters compared without case
AppearsIn(term, value) ==
  /\ value # NULL
  /\ \E off \in 0..(Len(value[1]) - Len(term)) :
       \A j \in 1..Len(term) :
         ToUpperChar(value[1][off + j]) = ToUpperChar(term[j])

\* some term appears in some designated text field
TextMatch(kind, terms, r) ==
  \E i \in 1..Len(terms) : \E v \in TextColumns(kind, r) : AppearsIn(terms[i], v)

\* the inferred enum condition of a kind
EnumCondition(kind, terms, r) ==
  CASE kind = "policy"   -> FALSE
    [] kind = "claim"    -> ClaimStatusCondition(terms, r)
    [] kind = "document" -> DocumentTypeCondition(terms, r)

\* the requesting user's rows of a kind that match the search
Matching(kind) ==
  { r \in store[kind] :
      /\ r.userId = req.userId
      /\ TextMatch(kind, searchTerms, r) \/ EnumCondition(kind, searchTerms, r) }

KindTotal(kind) ==
  IF kind \in RequestedKinds THEN Cardinality(Matching(kind)) ELSE 0

IsDescending(res) ==
  \A i \in 1..(Len(res) - 1) : res[i].date >= res[i + 1].date

IsStrictlyDescending(res) ==
  \A i \in 1..(Len(res) - 1) : res[i].date > res[i + 1].date

(***************************************************************************)
(* C1: a globalSearch whose query is empty or white space only returns     *)
(* exactly {results: [], total: 0} and issues no findMany and no count,    *)
(* whatever types, page and limit are.                                     *)
(***************************************************************************)
C1_EmptyQueryNoStoreCall ==
  (req.op = "globalSearch" /\ BlankQuery) =>
    /\ pc = "done"
    /\ calls = <<>>
    /\ response = [status |-> "returned", results |-> <<>>, total |-> 0]

C1_Witness ==
  /\ req.op = "globalSearch"
  /\ BlankQuery
  /\ Len(req.query) > 0
  /\ pc = "done"
  /\ req.page = 2
  /\ \E k \in RequestedKinds : \E r \in store[k] : r.userId = req.userId

(***************************************************************************)
(* C2: every record returned by globalSearch or by a filter function for   *)
(* user U is a row owned by U, and the returned total is the count taken   *)
(* over U's rows alone: rows of another user are neither returned nor      *)
(* counted.                                                                *)
(***************************************************************************)
OwnRows(kind) == { r \in store[kind] : r.userId = req.userId }

OwnCount(kind) ==
  IF kind \in RequestedKinds
  THEN Cardinality({ r \in OwnRows(kind) :
                       CountWhere(kind, req.userId, searchTerms, r) })
  ELSE 0

C2_UserScoped ==
  /\ SearchReturned =>
       /\ \A i \in 1..Len(response.results) :
            \E r \in OwnRows(response.results[i].type) :
              r.id = response.results[i].id
       /\ response.total =
            OwnCount("policy") + OwnCount("claim") + OwnCount("document")
  /\ FilterReturned =>
       /\ \A i \in 1..Len(response.items) : response.items[i] \in OwnRows(req.kind)
       /\ response.total =
            Cardinality({ r \in OwnRows(req.kind) :
                            FilterWhere(req.kind, req.userId, req.filters, r) })

\* u1 searched "damage" over all kinds and got results, while rows of u2
\* contain the term too
C2_Witness ==
  /\ SearchReturned
  /\ req.userId = "u1"
  /\ RequestedKinds = {"policy", "claim", "document"}
  /\ Len(response.results) > 0
  /\ response.total > 0
  /\ \A k \in RequestedKinds :
       \E r \in store[k] : r.userId # req.userId /\ TextMatch(k, searchTerms, r)

(***************************************************************************)
(* C3: for a globalSearch with a non-empty query the returned total is the *)
(* sum, over the requested kinds, of the number of the user's rows of the  *)
(* kind that match (some term in some text field, or the inferred enum     *)
(* condition); page, limit, the rows fetched and the slice play no part.   *)
(***************************************************************************)
C3_TotalIsSumOfCounts ==
  (SearchReturned /\ ~BlankQuery) =>
    response.total = KindTotal("policy") + KindTotal("claim") + KindTotal("document")

\* more rows match than the page shows, over several kinds, on page 2
C3_Witness ==
  /\ SearchReturned
  /\ ~BlankQuery
  /\ Cardinality(RequestedKinds) > 1
  /\ req.page = 2
  /\ response.total >= 3
  /\ Len(response.results) < response.total
  /\ \E k \in RequestedKinds : KindTotal(k) > req.limit

(***************************************************************************)
(* C4: when types names more than one entry, every findMany has skip 0 and *)
(* take limit; each requested kind contributes its first `limit` matches   *)
(* by updatedAt descending; the contributions are concatenated in the      *)
(* order policy, claim, document and sorted by date descending; the        *)
(* results are the elements [(page-1)*limit, (page-1)*limit + limit) of    *)
(* the merged list.  Page 1 holds at most `limit` items, each among the    *)
(* top `limit` matches of its kind, in descending date order.              *)
(***************************************************************************)
Contribution(kind) ==
  IF kind \in RequestedKinds
  THEN { MapResults(kind, w) : w \in FindMany(Matching(kind), 0, req.limit) }
  ELSE { <<>> }

C4_MergeThenSlice ==
  (SearchReturned /\ ~BlankQuery /\ Len(req.types) > 1) =>
    /\ \A i \in 1..Len(calls) :
         calls[i].op = "findMany" => calls[i].skip = 0 /\ calls[i].take = req.limit
    /\ \E a \in Contribution("policy") :
         \E b \in Contribution("claim") :
           \E c \in Contribution("document") :
             response.results =
               Slice(SortByDateDesc(a \o b \o c),
                     (req.page - 1) * req.limit,
                     (req.page - 1) * req.limit + req.limit)
    /\ req.page = 1 =>
         /\ Len(response.results) <= req.limit
         /\ IsDescending(response.results)
         /\ \A i \in 1..Len(response.results) :
              LET x == response.results[i]
              IN /\ \E r \in Matching(x.type) : r.id = x.id
                 /\ Cardinality({ r \in Matching(x.type) :
                                    r.updatedAt > x.date }) < req.limit

\* page 2 of a search over several kinds shows results, and a kind has more
\* matches than limit
C4_Witness ==
  /\ SearchReturned
  /\ ~BlankQuery
  /\ Cardinality(RequestedKinds) > 1
  /\ req.page = 2
  /\ Len(response.results) > 0
  /\ \E k \in RequestedKinds : KindTotal(k) > req.limit

(***************************************************************************)
(* C5 as amended: when types names exactly one kind, skip = (page-1)*limit *)
(* and take = limit are passed to the store query, and the response is     *)
(* that query's rows and that kind's count unchanged: at most `limit`      *)
(* items, in descending order of updatedAt where rows with equal updatedAt *)
(* may follow one another, being the page-th window of one ordering of the *)
(* kind's matches by updatedAt descending.                                 *)
(***************************************************************************)
SingleKindPage(strict) ==
  (SearchReturned /\ ~BlankQuery /\ Len(req.types) = 1) =>
    LET kind == req.types[1]
    IN /\ calls = << [op |-> "findMany", model |-> kind,
                      skip |-> (req.page - 1) * req.limit, take |-> req.limit],
                     [op |-> "count", model |-> kind] >>
       /\ \E s \in OrderedByUpdatedAtDesc(Matching(kind)) :
            response.results =
              MapResults(kind, Window(s, (req.page - 1) * req.limit, req.limit))
       /\ response.total = Cardinality(Matching(kind))
       /\ Len(response.results) <= req.limit
       /\ IF strict THEN IsStrictlyDescending(response.results)
                    ELSE IsDescending(response.results)

CalledModels(op) ==
  { calls[i].model : i \in { j \in 1..Len(calls) : calls[j].op = op } }

C7_OnlyRequestedPartitions ==
  req.op = "globalSearch" =>
    /\ CalledModels("findMany") \subseteq RequestedKinds
    /\ CalledModels("count") \subseteq RequestedKinds
    /\ SearchReturned =>
         \A i \in 1..Len(response.results) :
           response.results[i].type \in RequestedKinds
    /\ (SearchReturned /\ ~BlankQuery /\ req.typesArg = NULL) =>
         /\ CalledModels("findMany") = {"policy", "claim", "document"}
         /\ CalledModels("count") = {"policy", "claim", "document"}

\* types = [claim] returned a claim while a policy and a document of the
\* user contain a term too
C7_Witness ==
  /\ SearchReturned
  /\ req.types = <<"claim">>
  /\ Len(response.results) > 0
  /\ \E r \in store["policy"] :
       r.userId = req.userId /\ TextMatch("policy", searchTerms, r)
  /\ \E r \in store["document"] :
       r.userId = req.userId /\ TextMatch("document", searchTerms, r)

(***************************************************************************)
(* C9: keyword inference only widens: every row of the user that the text  *)
(* conditions alone match satisfies the where of the list query and of the *)
(* count query of its kind, with or without an inferred enum condition.    *)
(***************************************************************************)
C9_InferenceOnlyWidens ==
  (req.op = "globalSearch" /\ ~BlankQuery) =>
    \A k \in {"policy", "claim", "document"} :
      \A r \in store[k] :
        (r.userId = req.userId /\ TextMatch(k, searchTerms, r)) =>
          /\ ListWhere(k, req.userId, searchTerms, r)
          /\ CountWhere(k, req.userId, searchTerms, r)

\* a status was inferred, and a claim whose status is not inferred is
\* returned because a term appears in its text
C9_Witness ==
  /\ SearchReturned
  /\ "claim" \in RequestedKinds
  /\ HasInferred(StatusKeywords, searchTerms)
  /\ \E r \in store["claim"] :
       /\ r.userId = req.userId
       /\ TextMatch("claim", searchTerms, r)
       /\ ~ClaimStatusCondition(searchTerms, r)
       /\ \E i \in 1..Len(response.results) : response.results[i].id = r.id
  /\ \E r \in store["claim"] :
       /\ r.userId = req.userId
       /\ ClaimStatusCondition(searchTerms, r)

(***************************************************************************)
(* C10: a row of a requested kind satisfies the where of the list query    *)
(* (and of the count query) if and only if it is the user's and some term  *)
(* appears, ignoring case, as a substring of some designated text field    *)
(* of the kind, or the kind's inferred enum condition holds.               *)
(***************************************************************************)
C10_MatchIffAnyTermAnyField ==
  (req.op = "globalSearch" /\ ~BlankQuery) =>
    \A k \in {"policy", "claim", "document"} :
      \A r \in store[k] :
        /\ ListWhere(k, req.userId, searchTerms, r) <=> r \in Matching(k)
        /\ CountWhere(k, req.userId, searchTerms, r) <=> r \in Matching(k)

\* two terms, the one only in the claim number and the other only in the
\* description of a claim that is returned
C10_Witness ==
  /\ SearchReturned
  /\ Len(searchTerms) = 2
  /\ \E r \in store["claim"] :
       /\ r.userId = req.userId
       /\ AppearsIn(searchTerms[1], Some(r.claimNumber))
       /\ ~AppearsIn(searchTerms[2], Some(r.claimNumber))
       /\ AppearsIn(searchTerms[2], Some(r.description))
       /\ ~AppearsIn(searchTerms[1], Some(r.description))
       /\ ~EnumCondition("claim", searchTerms, r)
       /\ \E i \in 1..Len(response.results) : response.results[i].id = r.id

(***************************************************************************)
(* C6: on unchanged store data the record sets that a single-kind          *)
(* globalSearch returns for page k and for page k+1 (same query, kind and  *)
(* limit) are disjoint.                                                    *)
(***************************************************************************)
ResultIds(res) == { res[i].id : i \in 1..Len(res) }

C6_ConsecutivePagesDisjoint ==
  ( /\ SearchReturned
    /\ prev # NoRequest
    /\ Len(req.types) = 1
    /\ req.query = prev.req.query
    /\ req.userId = prev.req.userId
    /\ req.types = prev.req.types
    /\ req.limit = prev.req.limit
    /\ req.page = prev.req.page + 1 ) =>
    ResultIds(prev.response.results) \cap ResultIds(response.results) = {}

(***************************************************************************)
(* C8: keyword inference follows the tables: when the only term contains   *)
(* (ignoring case) one keyword of the claim-status table, every claim of   *)
(* the user whose status is the mapped value satisfies the claim queries   *)
(* and is returned, also when no text field holds the term; likewise for   *)
(* the document-category table and documentType.                           *)
(***************************************************************************)
StatusTable ==
  { << <<"a","p","p","r","o","v","e","d">>,     "APPROVED" >>,
    << <<"r","e","j","e","c","t","e","d">>,     "REJECTED" >>,
    << <<"p","a","i","d">>,                     "PAID" >>,
    << <<"d","r","a","f","t">>,                 "DRAFT" >>,
    << <<"s","u","b","m","i","t","t","e","d">>, "SUBMITTED" >>,
    << <<"r","e","v","i","e","w">>,             "UNDER_REVIEW" >>,
    << <<"c","l","o","s","e","d">>,             "CLOSED" >> }

CategoryTable ==
  { << <<"p","o","l","i","c","y">>,         "POLICY" >>,
    << <<"c","l","a","i","m">>,             "CLAIM" >>,
    << <<"i","d","e","n","t","i","t","y">>, "IDENTITY" >>,
    << <<"p","r","o","o","f">>,             "PROOF_OF_LOSS" >>,
    << <<"e","s","t","i","m","a","t","e">>, "ESTIMATE" >>,
    << <<"i","n","v","o","i","c","e">>,     "INVOICE" >>,
    << <<"r","e","c","e","i","p","t">>,     "RECEIPT" >>,
    << <<"p","h","o","t","o">>,             "PHOTO" >> }

\* the values of the table whose keyword the term contains, when the term
\* is the only term and contains exactly one keyword of the table
MappedValues(table) ==
  IF Len(searchTerms) = 1
       /\ Cardinality({ e \in table : AppearsIn(e[1], Some(searchTerms[1])) }) = 1
  THEN { e[2] : e \in { x \in table : AppearsIn(x[1], Some(searchTerms[1])) } }
  ELSE {}

Returns(r) == \E i \in 1..Len(response.results) : response.results[i].id = r.id

C8_KeywordInference ==
  req.op = "globalSearch" =>
    /\ \A r \in store["claim"] :
         (r.userId = req.userId /\ r.status \in MappedValues(StatusTable)) =>
           /\ ClaimListWhere(req.userId, searchTerms, r)
           /\ ClaimCountWhere(req.userId, searchTerms, r)
           /\ (SearchReturned /\ "claim" \in RequestedKinds) => Returns(r)
    /\ \A r \in store["document"] :
         (r.userId = req.userId /\ r.documentType \in MappedValues(CategoryTable)) =>
           /\ DocumentListWhere(req.userId, searchTerms, r)
           /\ DocumentCountWhere(req.userId, searchTerms, r)
           /\ (SearchReturned /\ "document" \in RequestedKinds) => Returns(r)

\* "review" as the only term returned the claim under review, whose text
\* holds no term, and only that claim
C8_Witness ==
  /\ SearchReturned
  /\ req.types = <<"claim">>
  /\ searchTerms = << <<"r","e","v","i","e","w">> >>
  /\ response.total = 1
  /\ \E r \in store["claim"] :
       /\ r.userId = req.userId
       /\ r.status = "UNDER_REVIEW"
       /\ ~TextMatch("claim", searchTerms, r)
       /\ Returns(r)

(***************************************************************************)
(* C11: for each requested kind the count query of globalSearch has the    *)
(* predicate of the list query (user scope, text conditions, inferred enum *)
(* condition): both select the same rows of every store, and the count of  *)
(* a single-kind search is the length of the list query's result when it   *)
(* is run without skip and take.                                           *)
(***************************************************************************)
C11_CountUsesListPredicate ==
  (req.op = "globalSearch" /\ Len(searchTerms) > 0) =>
    /\ \A k \in RequestedKinds : CountRows(k) = ListRows(k)
    /\ (SearchReturned /\ Len(req.types) = 1) =>
         \A rows \in FindMany(ListRows(req.types[1]), 0,
                              Cardinality(store[req.types[1]])) :
           response.total = Len(rows)

\* a document search returned a row that only the inferred documentType
\* selects, and counted it
C11_Witness ==
  /\ SearchReturned
  /\ req.types = <<"document">>
  /\ response.total > 0
  /\ \E r \in store["document"] :
       /\ r.userId = req.userId
       /\ ~TextMatch("document", searchTerms, r)
       /\ DocumentTypeCondition(searchTerms, r)
       /\ Returns(r)
  /\ response.total = Cardinality(ListRows("document"))

(***************************************************************************)
(* C12: in a multi-kind globalSearch the list and count queries of every   *)
(* requested kind are issued before the request waits on any of them, and  *)
(* the merged response is produced only after all of them have completed.  *)
(***************************************************************************)
Waiting == req.op = "globalSearch" /\ pc \in {"policy", "claim", "document"}

C12_FanOutBeforeWait ==
  /\ (Waiting /\ Cardinality(RequestedKinds \cap SeqToSet(Kinds)) > 1) =>
       \A k \in RequestedKinds \cap SeqToSet(Kinds) :
         {"findMany", "count"} \subseteq
           { calls[i].op : i \in { j \in 1..Len(calls) : calls[j].model = k } }
  /\ (SearchReturned /\ Len(searchTerms) > 0) =>
       \A k \in RequestedKinds \cap SeqToSet(Kinds) :
         \E i \in 1..Len(calls) : calls[i].model = k

(***************************************************************************)
(* C13: when a store query of a global search fails (the list or the count *)
(* query of any requested kind) the whole request fails: globalSearch      *)
(* throws and returns no result object, also when earlier kinds had        *)
(* succeeded, and GET /search answers with status 500 and the generic      *)
(* error body, which carries no results.  A 200 answer with results of a   *)
(* non-empty query is sent only when the queries of all requested kinds    *)
(* were issued and completed.                                              *)
(***************************************************************************)
GenericError == [error |-> "An error occurred while searching"]

C13_SubQueryFailureFailsRequest ==
  /\ pc = "failed" => response = [status |-> "thrown"]
  /\ (pc = "failed" /\ http.state = "responded") =>
       http.status = 500 /\ http.body = GenericError
  /\ (http.state = "responded" /\ http.status = 200) =>
       /\ pc = "done"
       /\ Len(searchTerms) > 0 =>
            \A k \in RequestedKinds : k \in CalledModels("findMany")

\* the claim queries failed after the policy queries had delivered rows:
\* the answer is the 500 without them
C13_Witness ==
  /\ pc = "failed"
  /\ req.op = "globalSearch"
  /\ Len(results) > 0
  /\ Len(calls) = 4
  /\ http.state = "responded"
  /\ http.status = 500
  /\ http.body = GenericError

(***************************************************************************)
(* C14: no store operation is retried: within one globalSearch or filter   *)
(* request each partition receives at most one list query and at most one  *)
(* count query, also when a query fails.                                   *)
(***************************************************************************)
CallsOf(op, model) ==
  { i \in 1..Len(calls) : calls[i].op = op /\ calls[i].model = model }

C14_NoRetry ==
  \A op \in {"findMany", "count"}, k \in SeqToSet(Kinds) :
    Cardinality(CallsOf(op, k)) <= 1

\* the document queries of a search over all kinds failed: every partition
\* had received its two queries exactly once
C14_Witness ==
  /\ pc = "failed"
  /\ req.op = "globalSearch"
  /\ \A op \in {"findMany", "count"}, k \in SeqToSet(Kinds) :
       Cardinality(CallsOf(op, k)) = 1

(***************************************************************************)
(* C15: globalSearch, filterPolicies, filterClaims and filterDocuments are *)
(* read-only: no step of any of them, with any arguments, succeeding or    *)
(* failing, changes the record store.                                      *)
(***************************************************************************)
C15_ReadOnly == [][store' = store]_vars

\* a filter has returned rows of a store that holds rows of all three kinds
C15_Witness ==
  /\ FilterReturned
  /\ Len(response.items) > 0
  /\ \A k \in SeqToSet(Kinds) : \E r \in store[k] : r.userId = req.userId

(***************************************************************************)
(* C16 as amended: every item returned by filterPolicies, filterClaims or  *)
(* filterDocuments belongs to the user and satisfies all constraints that  *)
(* are supplied: list fields by membership, boolean fields by equality (a  *)
(* supplied false constrains), amount and date bounds by inclusive >= and  *)
(* <=, parent ids by equality.  A list supplied empty and a parent id      *)
(* supplied as the empty string constrain nothing, like a field that is    *)
(* not supplied.                                                           *)
(***************************************************************************)
\* a supplied list or id constrains; as the claim is stated (strict) every
\* supplied one does, also the empty list and the empty id
ListConstrains(opt, strict) == opt # NULL /\ (strict \/ opt[1] # <<>>)

IdConstrains(opt, strict) == opt # NULL /\ (strict \/ opt[1] # "")

InList(v, opt) == \E i \in 1..Len(opt[1]) : opt[1][i] = v

AtLeast(v, opt) == opt # NULL => v >= opt[1]

AtMost(v, opt) == opt # NULL => v <= opt[1]

Satisfies(kind, f, r, strict) ==
  CASE kind = "policy" ->
         /\ ListConstrains(f.insuranceType, strict) => InList(r.insuranceType, f.insuranceType)
         /\ ListConstrains(f.provider, strict) => InList(r.provider, f.provider)
         /\ f.isActive # NULL => r.isActive = f.isActive[1]
         /\ AtLeast(r.coverageAmount, f.minAmount)
         /\ AtMost(r.coverageAmount, f.maxAmount)
         /\ AtLeast(r.startDate, f.startAfter)
         /\ AtMost(r.endDate, f.endBefore)
    [] kind = "claim" ->
         /\ ListConstrains(f.status, strict) => InList(r.status, f.status)
         /\ IdConstrains(f.policyId, strict) => r.policyId = f.policyId[1]
         /\ AtLeast(r.incidentDate, f.incidentDateFrom)
         /\ AtMost(r.incidentDate, f.incidentDateTo)
         /\ f.minAmount # NULL =>
              r.damageAmount # NULL /\ AtLeast(r.damageAmount[1], f.minAmount)
         /\ f.maxAmount # NULL =>
              r.damageAmount # NULL /\ AtMost(r.damageAmount[1], f.maxAmount)
    [] kind = "document" ->
         /\ ListConstrains(f.documentType, strict) => InList(r.documentType, f.documentType)
         /\ IdConstrains(f.policyId, strict) => r.policyId = Some(f.policyId[1])
         /\ IdConstrains(f.claimId, strict) => r.claimId = Some(f.claimId[1])
         /\ f.isAnalyzed # NULL => r.isAnalyzed = f.isAnalyzed[1]
         /\ AtLeast(r.uploadDate, f.uploadDateFrom)
         /\ AtMost(r.uploadDate, f.uploadDateTo)

ItemsSatisfy(strict) ==
  FilterReturned =>
    \A i \in 1..Len(response.items) :
      /\ response.items[i].userId = req.userId
      /\ Satisfies(req.kind, req.filters, response.items[i], strict)

C16_ItemsSatisfySupplied == ItemsSatisfy(FALSE)

\* C16 as stated: every supplied list and parent id constrains
C16_ItemsSatisfyEverySupplied == ItemsSatisfy(TRUE)

\* isActive = false and a minimum amount were supplied: the inactive policy
\* above the minimum is the only item, the active one is left out
C16_Witness ==
  /\ FilterReturned
  /\ req.kind = "policy"
  /\ req.filters.isActive = Some(FALSE)
  /\ req.filters.minAmount # NULL
  /\ Len(response.items) = 1
  /\ \E r \in store["policy"] : r.userId = req.userId /\ r.isActive

(***************************************************************************)
(* C17: for a filter request with page >= 1 and pageSize >= 1 the items    *)
(* are the records at positions [(page-1)*pageSize, page*pageSize) of the  *)
(* user's records that satisfy the predicate, in an order by updatedAt     *)
(* descending, and total is the number of the user's records that satisfy  *)
(* the predicate, whatever page and pageSize are.                          *)
(***************************************************************************)
\* the user's rows of the filtered kind that satisfy the supplied constraints
Satisfying ==
  { r \in store[req.kind] :
      r.userId = req.userId /\ Satisfies(req.kind, req.filters, r, FALSE) }

C17_FilterPageAndTotal ==
  FilterReturned =>
    /\ \E s \in OrderedByUpdatedAtDesc(Satisfying) :
         response.items = Window(s, (req.page - 1) * req.pageSize, req.pageSize)
    /\ \A i \in 1..(Len(response.items) - 1) :
         response.items[i].updatedAt >= response.items[i + 1].updatedAt
    /\ Len(response.items) <= req.pageSize
    /\ response.total = Cardinality(Satisfying)

\* page 2 of a filter with a supplied constraint holds a record, and the
\* total counts the records of both pages
C17_Witness ==
  /\ FilterReturned
  /\ req.page = 2
  /\ Given(req.filters) >= 1
  /\ Len(response.items) >= 1
  /\ response.total > req.pageSize
  /\ response.total < Cardinality({ r \in store[req.kind] : r.userId = req.userId })

(***************************************************************************)
(* C18: faceted filtering is idempotent: the identical filter request      *)
(* (same user, filters, page, pageSize) run twice against an unchanged     *)
(* store yields the identical items sequence and the identical total.      *)
(***************************************************************************)
C18_FilterIdempotent ==
  (FilterReturned /\ prev # NoRequest /\ req = prev.req) =>
    /\ response.items = prev.response.items
    /\ response.total = prev.response.total

(***************************************************************************)
(* C19: a parent id supplied as a filter (policyId in filterClaims,        *)
(* policyId or claimId in filterDocuments) that is not the id of a record  *)
(* of the requesting user, because the record belongs to another user or   *)
(* because no such record exists, yields no items and total 0: the two     *)
(* cases have the same response.                                           *)
(***************************************************************************)
\* the id is supplied and names no record of the requesting user
NotOwnParent(opt, parentKind) ==
  /\ opt # NULL
  /\ opt[1] # ""
  /\ ~\E p \in store[parentKind] : p.id = opt[1] /\ p.userId = req.userId

SuppliesNotOwnParent ==
  \/ req.kind = "claim" /\ NotOwnParent(req.filters.policyId, "policy")
  \/ req.kind = "document" /\ NotOwnParent(req.filters.policyId, "policy")
  \/ req.kind = "document" /\ NotOwnParent(req.filters.claimId, "claim")

C19_ForeignParentIsNoMatch ==
  (FilterReturned /\ SuppliesNotOwnParent) =>
    response = [status |-> "returned", items |-> <<>>, total |-> 0]

\* u1 filtered claims by the policy of u2, which has a claim of u2
C19_Witness ==
  /\ FilterReturned
  /\ req.kind = "claim"
  /\ req.userId = "u1"
  /\ req.filters.policyId # NULL
  /\ \E p \in store["policy"] :
       /\ p.id = req.filters.policyId[1]
       /\ p.userId = "u2"
       /\ \E c \in store["claim"] : c.policyId = p.id
  /\ response.total = 0

(***************************************************************************)
(* C20: GET /search searches all three kinds when the types parameter is   *)
(* omitted or empty; when it is given, the comma-separated tokens other    *)
(* than policy, claim and document are dropped and exactly the recognized  *)
(* kinds that remain are searched (none when no token is recognized).      *)
(***************************************************************************)
\* the kinds whose name stands in s as a whole comma-separated token
Recognized(s) ==
  { k \in DOMAIN KindNames :
      \E i \in 1..Len(s) :
        LET j == i + Len(KindNames[k]) - 1
        IN /\ j <= Len(s)
           /\ SubSeq(s, i, j) = KindNames[k]
           /\ i = 1 \/ s[i - 1] = ","
           /\ j = Len(s) \/ s[j + 1] = "," }

C20_TypesParameter ==
  http.state = "searching" =>
    /\ RequestedKinds =
         IF http.typesParam = NULL \/ http.typesParam[1] = <<>>
         THEN {"policy", "claim", "document"}
         ELSE Recognized(http.typesParam[1])
    /\ (pc = "done" /\ Len(searchTerms) > 0) =>
         /\ CalledModels("findMany") = RequestedKinds
         /\ CalledModels("count") = RequestedKinds

\* types=foo,document: only the Document partition was searched
C20_Witness ==
  /\ http.state = "searching"
  /\ pc = "done"
  /\ Len(searchTerms) > 0
  /\ http.typesParam = Some(<<"f","o","o",",","d","o","c","u","m","e","n","t">>)
  /\ CalledModels("findMany") = {"document"}
  /\ response.total > 0

(***************************************************************************)
(* C21: in a globalSearch that merges (types names more than one entry)    *)
(* only the first `limit` matches of each kind enter the merge pool: a     *)
(* matching record with at least `limit` more recently updated matches of  *)
(* its own kind is in the results of no page, though total counts it.      *)
(***************************************************************************)
\* the matches of a kind that cannot be among its `limit` most recent ones
BeyondCap(kind) ==
  { r \in Matching(kind) :
      Cardinality({ x \in Matching(kind) : x.updatedAt > r.updatedAt }) >= req.limit }

C21_BeyondCapNeverReturned ==
  (SearchReturned /\ ~BlankQuery /\ Len(req.types) > 1) =>
    /\ \A k \in RequestedKinds : \A r \in BeyondCap(k) : ~Returns(r)
    /\ response.total >=
         Cardinality(UNION { BeyondCap(k) : k \in RequestedKinds })
    /\ response.total = KindTotal("policy") + KindTotal("claim") + KindTotal("document")

\* page 2 of a search over all kinds is empty although a matching claim was
\* shown on no page: the page is incomplete
C21_Witness ==
  /\ SearchReturned
  /\ Len(req.types) > 1
  /\ req.page = 2
  /\ BeyondCap("claim") # {}
  /\ response.total > SkipOf(req) + Len(response.results)
  /\ Len(response.results) < req.limit

(***************************************************************************)
(* C22: the merge sort is stable with respect to fetch order: among merged *)
(* results of equal date a policy stands before a claim and a claim before *)
(* a document, and results of one kind keep the order in which the store   *)
(* returned them.                                                          *)
(***************************************************************************)
\* the place of the i-th element of the pool in a stable descending sort:
\* after the elements of later date and the earlier elements of equal date
StableRank(pool, i) ==
  1 + Cardinality({ j \in 1..Len(pool) : pool[j].date > pool[i].date })
    + Cardinality({ j \in 1..(i - 1) : pool[j].date = pool[i].date })

StablySorted(pool) ==
  [n \in 1..Len(pool) |-> pool[CHOOSE i \in 1..Len(pool) : StableRank(pool, i) = n]]

KindIndex(kind) == CHOOSE i \in 1..3 : Kinds[i] = kind

\* what each kind's findMany may have returned, as results
Fetched(kind) ==
  IF kind \in RequestedKinds
  THEN { MapResults(kind, w) :
           w \in FindMany(Matching(kind), StoreSkip(req), StoreTake(req)) }
  ELSE { <<>> }

MergedAsStablySorted ==
  (SearchReturned /\ ~BlankQuery) =>
    /\ \E a \in Fetched("policy") : \E b \in Fetched("claim") :
         \E c \in Fetched("document") :
           response.results =
             IF Len(req.types) > 1
             THEN Slice(StablySorted(a \o b \o c), SkipOf(req), SkipOf(req) + req.limit)
             ELSE StablySorted(a \o b \o c)
    /\ \A i, j \in 1..Len(response.results) :
         (i < j /\ response.results[i].date = response.results[j].date) =>
           KindIndex(response.results[i].type) <= KindIndex(response.results[j].type)

IndexIn(seq, x) == CHOOSE n \in 1..Len(seq) : seq[n] = x

\* the step that sorts: results of equal date that the store had returned
\* one before the other stay in that order
KeepsFetchOrder ==
  (pc # "done" /\ pc' = "done" /\ req'.op = "globalSearch" /\ Len(searchTerms') > 0) =>
    \A i, j \in 1..Len(results) :
      ( /\ i < j
        /\ results[i].date = results[j].date
        /\ results[i] \in SeqToSet(response'.results)
        /\ results[j] \in SeqToSet(response'.results) ) =>
        IndexIn(response'.results, results[i]) < IndexIn(response'.results, results[j])

C22_StableMerge == []MergedAsStablySorted /\ [][KeepsFetchOrder]_vars

\* a claim and a document of equal date are on one page, the claim first,
\* though types names document before claim
C22_Witness ==
  /\ SearchReturned
  /\ req.types = <<"document", "claim">>
  /\ Len(response.results) = 2
  /\ response.results[1].date = response.results[2].date
  /\ response.results[1].type = "claim"
  /\ response.results[2].type = "document"

(***************************************************************************)
(* C23: the default branches of keyword inference are unreachable: every   *)
(* value in the inferred status list comes from a keyword that its term    *)
(* contains (DRAFT only from a term containing draft), and OTHER is never  *)
(* in the inferred document-category list.                                 *)
(***************************************************************************)
\* the value inferred from a term that passed the filter is the value of a
\* keyword the term contains, and does not depend on the default
FromKeyword(keywords, table, dflt, term) ==
  MatchesKeyword(keywords, term) =>
    /\ \E e \in table :
         AppearsIn(e[1], Some(term)) /\ e[2] = InferValue(keywords, dflt, term)
    /\ InferValue(keywords, dflt, term) = InferValue(keywords, "UNREACHED", term)

C23_DefaultUnreachable ==
  req.op = "globalSearch" =>
    /\ \A i \in 1..Len(searchTerms) :
         /\ FromKeyword(StatusKeywords, StatusTable, "DRAFT", searchTerms[i])
         /\ FromKeyword(CategoryKeywords, CategoryTable, "OTHER", searchTerms[i])
    /\ "OTHER" \notin InferredValues(CategoryKeywords, "OTHER", searchTerms)
    /\ "UNREACHED" \notin InferredValues(StatusKeywords, "UNREACHED", searchTerms)

\* DRAFT was inferred, from a term that contains draft, and the draft claim
\* was returned
C23_Witness ==
  /\ SearchReturned
  /\ InferredValues(StatusKeywords, "DRAFT", searchTerms) = {"DRAFT"}
  /\ \A i \in 1..Len(searchTerms) :
       AppearsIn(<<"d","r","a","f","t">>, Some(searchTerms[i]))
  /\ \E r \in store["claim"] : r.status = "DRAFT" /\ Returns(r)

(***************************************************************************)
(* GlobalSearchBar: the incremental search of the client.  bar holds the   *)
(* component's state: query, searchResults, isResultsOpen, isSearching and *)
(* error are its useState values, ref is abortControllerRef.current (the   *)
(* index of the request whose AbortController it holds), timer is the      *)
(* pending debounce timeout with the query text its callback closed over,  *)
(* and fetches lists the requests sent, each with the query text it was    *)
(* sent for, whether its signal is aborted, and how far performSearch has  *)
(* come with it: "fetch" (awaiting fetch), "json" (awaiting               *)
(* response.json()), "written" (setSearchResults ran), "failed" (setError  *)
(* ran) or "aborted" (the catch saw an AbortError).  searchResults is the  *)
(* list shown: <<>> or <<q>>, the results of the search for q.  An input   *)
(* event is rendered and its effects are run before the next task (React   *)
(* 18 flushes the effects of a discrete event synchronously), and the code *)
(* after an await runs in the task that settled the promise, so each       *)
(* action below is one task of the event loop.                             *)
(***************************************************************************)
QueryTexts == { <<>>, <<" ">>, <<"w">>, <<"w", "a">> }

MaxFetches == 3

\* !searchQuery.trim()
TrimIsEmpty(q) == \A i \in 1..Len(q) : q[i] \in WhiteSpace

\* abortControllerRef.current.abort(), when a controller is held
AbortCurrent(b) ==
  IF b.ref = NULL THEN b.fetches
  ELSE [b.fetches EXCEPT ![b.ref[1]].aborted = TRUE]

\* mutant: a cleanup that clears the timer and leaves the request in flight
CleanupTimerOnly(b) ==
  [b EXCEPT !.timer = NULL]

\* the cleanup of the debounce effect
Cleanup(b) ==
  [b EXCEPT !.timer = NULL, !.fetches = AbortCurrent(b), !.ref = NULL]

\* the debounce effect: setTimeout(() => performSearch(query), 300)
Effect(b) == [b EXCEPT !.timer = Some(b.query)]

\* the component mounted: the effect has run for the initial query ''
Mounted == Effect([NoBar EXCEPT !.mounted = TRUE])

\* a state setter does nothing once the component is unmounted
SetState(b, next) == IF b.mounted THEN next ELSE b

\* onChange: setQuery(e.target.value); the render runs the cleanup of the
\* previous effect and then the effect for the new query
SetQuery(q) ==
  /\ bar.mounted
  /\ q # bar.query
  /\ bar' = Effect([Cleanup(bar) EXCEPT !.query = q])
  /\ UNCHANGED <<store, pc, req, searchTerms, results, total, calls, response, prev, http, sessions>>

\* the component unmounts: the cleanup of the effect runs
Unmount ==
  /\ bar.mounted
  /\ bar' = [Cleanup(bar) EXCEPT !.mounted = FALSE]
  /\ UNCHANGED <<store, pc, req, searchTerms, results, total, calls, response, prev, http, sessions>>

\* performSearch(searchQuery) up to its first await
performSearch(b, searchQuery) ==
  IF TrimIsEmpty(searchQuery)
  THEN SetState(b, [b EXCEPT !.searchResults = <<>>, !.isResultsOpen = FALSE])
  ELSE [SetState(b, [b EXCEPT !.isSearching = TRUE, !.error = NULL])
          EXCEPT !.fetches = Append(AbortCurrent(b), [query |-> searchQuery, aborted |-> FALSE, stage |-> "fetch"]),
                 !.ref = Some(Len(b.fetches) + 1)]

\* the debounce timer expires
TimerFires ==
  /\ bar.timer # NULL
  /\ TrimIsEmpty(bar.timer[1]) \/ Len(bar.fetches) < MaxFetches
  /\ bar' = performSearch([bar EXCEPT !.timer = NULL], bar.timer[1])
  /\ UNCHANGED <<store, pc, req, searchTerms, results, total, calls, response, prev, http, sessions>>

InFlight(i) == i \in DOMAIN bar.fetches /\ bar.fetches[i].stage \in {"fetch", "json"}

\* the catch and finally of performSearch for an error that is not an
\* AbortError
Failed(b, i) ==
  [SetState(b, [b EXCEPT !.error = Some("Failed to search"), !.isSearching = FALSE])
     EXCEPT !.fetches[i].stage = "failed"]

\* the response head arrives: fetch resolves; a response that is not ok
\* throws 'Search failed'
ResponseArrives(i, ok) ==
  /\ InFlight(i)
  /\ bar.fetches[i].stage = "fetch"
  /\ ~bar.fetches[i].aborted
  /\ bar' = IF ok THEN [bar EXCEPT !.fetches[i].stage = "json"] ELSE Failed(bar, i)
  /\ UNCHANGED <<store, pc, req, searchTerms, results, total, calls, response, prev, http, sessions>>

\* the body arrives: setSearchResults(data.results), setIsResultsOpen(true),
\* and setIsSearching(false) in the finally
BodyArrives(i) ==
  /\ InFlight(i)
  /\ bar.fetches[i].stage = "json"
  /\ ~bar.fetches[i].aborted
  /\ bar' = [SetState(bar, [bar EXCEPT !.searchResults = <<bar.fetches[i].query>>, !.isResultsOpen = TRUE, !.isSearching = FALSE])
               EXCEPT !.fetches[i].stage = "written"]
  /\ UNCHANGED <<store, pc, req, searchTerms, results, total, calls, response, prev, http, sessions>>

\* the request fails for another reason than an abort (the network, a body
\* that is not JSON)
RequestFails(i) ==
  /\ InFlight(i)
  /\ ~bar.fetches[i].aborted
  /\ bar' = Failed(bar, i)
  /\ UNCHANGED <<store, pc, req, searchTerms, results, total, calls, response, prev, http, sessions>>

\* the pending promise of an aborted request rejects with an AbortError:
\* the catch leaves error alone, the finally runs setIsSearching(false)
AbortRejects(i) ==
  /\ InFlight(i)
  /\ bar.fetches[i].aborted
  /\ bar' = [SetState(bar, [bar EXCEPT !.isSearching = FALSE])
               EXCEPT !.fetches[i].stage = "aborted"]
  /\ UNCHANGED <<store, pc, req, searchTerms, results, total, calls, response, prev, http, sessions>>

InitBar ==
  /\ store = KeywordStore
  /\ pc = "idle"
  /\ req = NoRequest
  /\ searchTerms = <<>>
  /\ results = <<>>
  /\ total = 0
  /\ calls = <<>>
  /\ response = NoResponse
  /\ prev = NoRequest
  /\ http = NoHttp
  /\ bar = Mounted
  /\ sessions = NoSessions

NextBar ==
  \/ \E q \in QueryTexts : SetQuery(q)
  \/ TimerFires
  \/ \E i \in 1..MaxFetches, ok \in BOOLEAN : ResponseArrives(i, ok)
  \/ \E i \in 1..MaxFetches : BodyArrives(i)
  \/ \E i \in 1..MaxFetches : RequestFails(i)
  \/ \E i \in 1..MaxFetches : AbortRejects(i)
  \/ Unmount

SpecBar == InitBar /\ [][NextBar]_vars

(***************************************************************************)
(* C24: whenever the query text changes or the component unmounts, the     *)
(* pending debounce timer is cleared and the request in flight is aborted, *)
(* so a request sent for a query text that is no longer the query of the   *)
(* mounted component never writes searchResults and never sets error.      *)
(***************************************************************************)
\* the requests and the timer that are still live belong to the query text
\* of the mounted component
Superseded(i) == ~bar.mounted \/ bar.fetches[i].query # bar.query

LiveBelongToQuery ==
  /\ bar.timer # NULL => bar.mounted /\ bar.timer[1] = bar.query
  /\ \A i \in DOMAIN bar.fetches :
       InFlight(i) /\ Superseded(i) => bar.fetches[i].aborted

\* a step in which request i runs setSearchResults or setError
Settles(i) ==
  /\ InFlight(i)
  /\ bar'.fetches[i].stage \in {"written", "failed"}

SupersededNeverSettles ==
  /\ \A i \in DOMAIN bar.fetches : Superseded(i) => ~Settles(i)
  /\ bar'.searchResults # bar.searchResults /\ bar'.searchResults # <<>> =>
       bar.mounted /\ bar'.searchResults = <<bar.query>>
  /\ bar'.error # bar.error /\ bar'.error # NULL =>
       \E i \in DOMAIN bar.fetches : ~Superseded(i) /\ Settles(i)

C24_SupersededResponseDropped == []LiveBelongToQuery /\ [][SupersededNeverSettles]_vars

\* a request was sent for "w", the query became "wa", a second request was
\* sent and its results were written while the first, aborted, never
\* settled
C24_Witness ==
  /\ bar.mounted
  /\ bar.query = <<"w", "a">>
  /\ Len(bar.fetches) >= 2
  /\ bar.fetches[1].query = <<"w">>
  /\ bar.fetches[1].stage = "aborted"
  /\ bar.fetches[2].stage = "written"
  /\ bar.searchResults = << <<"w", "a">> >>

(***************************************************************************)
(* C25: page 1 of a search over several kinds is exact despite the cap per *)
(* kind: its results are the limit most recently updated matches over all  *)
(* requested kinds together (all matches if there are fewer), so no match  *)
(* left out of page 1 has a strictly later updatedAt than a match on it.   *)
(***************************************************************************)
\* id and updatedAt of the matches of all requested kinds
AllMatches ==
  UNION { { <<r.id, r.updatedAt>> : r \in Matching(k) } : k \in RequestedKinds }

Shown ==
  { <<response.results[i].id, response.results[i].date>> : i \in 1..Len(response.results) }

C25_FirstPageExact ==
  (SearchReturned /\ ~BlankQuery /\ Len(req.types) > 1 /\ req.page = 1) =>
    /\ Shown \subseteq AllMatches
    /\ Cardinality(Shown) = Len(response.results)
    /\ Len(response.results) = Min(req.limit, Cardinality(AllMatches))
    /\ \A m \in AllMatches \ Shown : \A r \in Shown : m[2] <= r[2]

\* page 1 over two kinds is full, the cap cut a kind, a match is left out
\* and both kinds are on the page
C25_Witness ==
  /\ SearchReturned
  /\ Cardinality(RequestedKinds) > 1
  /\ req.page = 1
  /\ \E k \in RequestedKinds : BeyondCap(k) # {}
  /\ AllMatches \ Shown # {}
  /\ Len(response.results) = req.limit
  /\ \E i, j \in 1..Len(response.results) : response.results[i].type # response.results[j].type

(***************************************************************************)
(* A kind named twice: a single-kind search, then the same search with the *)
(* kind named twice in the types list, as GET /search passes it for        *)
(* types=claim,claim                                                       *)
(***************************************************************************)
\* the same query, user, limit and page, types = [k, k]
NamedTwice ==
  /\ prev # NoRequest
  /\ GlobalSearch(prev.req.query, prev.req.userId,
                  Some(<<prev.req.types[1], prev.req.types[1]>>),
                  Some(prev.req.limit), Some(prev.req.page))
  /\ UNCHANGED http

NextNamedTwice ==
  \/ FirstPage
  \/ NamedTwice
  \/ ResolvePolicies
  \/ ResolveClaims
  \/ ResolveDocuments
  \/ ReturnKeep

SpecNamedTwice == Init /\ [][NextNamedTwice]_vars

(***************************************************************************)
(* C26: the choice between store-level pagination and merge-then-slice     *)
(* depends only on the set of distinct requested kinds: a request whose    *)
(* types list names one kind twice returns, for every page, as many        *)
(* results and the same total as the request with the kind named once.     *)
(***************************************************************************)
AfterNamedOnce ==
  /\ SearchReturned
  /\ prev # NoRequest
  /\ req.types = <<prev.req.types[1], prev.req.types[1]>>

C26_NamedTwiceSameAsOnce ==
  AfterNamedOnce =>
    /\ Len(response.results) = Len(prev.response.results)
    /\ response.total = prev.response.total
    /\ Len(prev.req.types) = 1 /\ Len(req.types) = 2

\* only the count of the claim holds: the totals agree on every page
C26_TotalsAgree ==
  AfterNamedOnce => response.total = prev.response.total

\* page 2 with the kind named once holds a result, page 2 with the kind
\* named twice is empty
C26_Witness ==
  /\ AfterNamedOnce
  /\ req.page = 2
  /\ Len(prev.response.results) > 0
  /\ response.results = <<>>

(***************************************************************************)
(* C27: each term contributes at most one inferred value per table: when a *)
(* term contains more than one keyword of a table, only the first keyword  *)
(* in table order (approved, rejected, paid, draft, submitted, review,     *)
(* closed; policy, claim, identity, proof, estimate, invoice, receipt,     *)
(* photo) yields a value, so records whose status or category corresponds  *)
(* only to the later keyword are not matched by inference.                 *)
(***************************************************************************)
StatusOrder ==
  << << <<"a","p","p","r","o","v","e","d">>,     "APPROVED" >>,
     << <<"r","e","j","e","c","t","e","d">>,     "REJECTED" >>,
     << <<"p","a","i","d">>,                     "PAID" >>,
     << <<"d","r","a","f","t">>,                 "DRAFT" >>,
     << <<"s","u","b","m","i","t","t","e","d">>, "SUBMITTED" >>,
     << <<"r","e","v","i","e","w">>,             "UNDER_REVIEW" >>,
     << <<"c","l","o","s","e","d">>,             "CLOSED" >> >>

CategoryOrder ==
  << << <<"p","o","l","i","c","y">>,         "POLICY" >>,
     << <<"c","l","a","i","m">>,             "CLAIM" >>,
     << <<"i","d","e","n","t","i","t","y">>, "IDENTITY" >>,
     << <<"p","r","o","o","f">>,             "PROOF_OF_LOSS" >>,
     << <<"e","s","t","i","m","a","t","e">>, "ESTIMATE" >>,
     << <<"i","n","v","o","i","c","e">>,     "INVOICE" >>,
     << <<"r","e","c","e","i","p","t">>,     "RECEIPT" >>,
     << <<"p","h","o","t","o">>,             "PHOTO" >> >>

\* the places in the table of the keywords that the term contains
KeywordsIn(order, term) ==
  { j \in 1..Len(order) : AppearsIn(order[j][1], Some(term)) }

\* the values that the terms yield: for each term that contains a keyword,
\* the value of the first keyword it contains
FirstKeywordValues(order, terms) ==
  { order[CHOOSE j \in KeywordsIn(order, terms[i]) :
            \A k \in KeywordsIn(order, terms[i]) : j <= k][2] :
      i \in { n \in 1..Len(terms) : KeywordsIn(order, terms[n]) # {} } }

C27_FirstKeywordOnly ==
  req.op = "globalSearch" =>
    /\ InferredValues(StatusKeywords, "DRAFT", searchTerms) = FirstKeywordValues(StatusOrder, searchTerms)
    /\ InferredValues(CategoryKeywords, "OTHER", searchTerms) = FirstKeywordValues(CategoryOrder, searchTerms)
    /\ \A r \in store["claim"] :
         ClaimListWhere(req.userId, searchTerms, r) /\ ~TextMatch("claim", searchTerms, r) =>
           r.status \in FirstKeywordValues(StatusOrder, searchTerms)
    /\ \A r \in store["document"] :
         DocumentListWhere(req.userId, searchTerms, r) /\ ~TextMatch("document", searchTerms, r) =>
           r.documentType \in FirstKeywordValues(CategoryOrder, searchTerms)
    /\ SearchReturned =>
         /\ \A r \in store["claim"] :
              Returns(r) /\ ~TextMatch("claim", searchTerms, r) =>
                r.status \in FirstKeywordValues(StatusOrder, searchTerms)
         /\ \A r \in store["document"] :
              Returns(r) /\ ~TextMatch("document", searchTerms, r) =>
                r.documentType \in FirstKeywordValues(CategoryOrder, searchTerms)

\* the term closedPaid holds closed before paid, and paid and closed claims
\* exist: the paid claim is returned, the closed claim is not
C27_Witness ==
  /\ SearchReturned
  /\ searchTerms = << <<"c","l","o","s","e","d","P","a","i","d">> >>
  /\ KeywordsIn(StatusOrder, searchTerms[1]) = {3, 7}
  /\ \E r \in store["claim"] : r.status = "PAID" /\ Returns(r)
  /\ \E r \in store["claim"] : r.status = "CLOSED" /\ r.userId = req.userId
  /\ \A r \in store["claim"] : r.status = "CLOSED" => ~Returns(r)

(***************************************************************************)
(* C28: in filterPolicies, filterClaims and filterDocuments a list filter  *)
(* supplied as an empty list imposes no constraint: the response is a      *)
(* response of the request with that field omitted, and not the response   *)
(* that matches no record.                                                 *)
(***************************************************************************)
ListFields(kind) ==
  CASE kind = "policy"   -> {"insuranceType", "provider"}
    [] kind = "claim"    -> {"status"}
    [] kind = "document" -> {"documentType"}

\* the list fields of the request that were supplied empty
SuppliedEmpty == { k \in ListFields(req.kind) : req.filters[k] = Some(<<>>) }

\* the filters of the request with field k omitted
Omitting(k) == [req.filters EXCEPT ![k] = NULL]

\* the requesting user's rows that satisfy the constraints of f
SatisfyingOf(f) ==
  { r \in store[req.kind] : r.userId = req.userId /\ Satisfies(req.kind, f, r, FALSE) }

C28_EmptyListAsOmitted ==
  FilterReturned =>
    \A k \in SuppliedEmpty :
      /\ \A r \in store[req.kind] :
           FilterWhere(req.kind, req.userId, req.filters, r)
             <=> FilterWhere(req.kind, req.userId, Omitting(k), r)
      /\ \E s \in OrderedByUpdatedAtDesc(SatisfyingOf(Omitting(k))) :
           response.items = Window(s, (req.page - 1) * req.pageSize, req.pageSize)
      /\ response.total = Cardinality(SatisfyingOf(Omitting(k)))

\* filterClaims with status: [] alone returns a page of the user's claims
C28_Witness ==
  /\ FilterReturned
  /\ req.kind = "claim"
  /\ SuppliedEmpty = {"status"}
  /\ Len(response.items) > 0
  /\ response.total = Cardinality({ r \in store["claim"] : r.userId = req.userId })
  /\ response.total >= 2

(***************************************************************************)
(* createSession: the session table and the calls under way.  sessions     *)
(* holds the rows of the Session table (id, userId, createdAt, expires),   *)
(* the clock now in minutes, the number of rows created so far, and for    *)
(* each call its position: "count", "findFirst", "delete" and "create" are *)
(* the awaited store calls, each answered by the store in a step of its    *)
(* own, so the steps of two calls interleave.                              *)
(***************************************************************************)
SESSION_TIMEOUT_MINUTES == 8 * 60

MAX_CONCURRENT_SESSIONS == 5

\* calls that can be under way at once
SessionCalls == 1..2

\* the clock advances by TickMinutes, MaxTicks times at most
TickMinutes == 8 * 60

MaxTicks == 1

\* rows created at most
MaxCreated == 7

IdleCall == [pc |-> "idle", userId |-> "", expires |-> 0, oldest |-> NULL]

\* where: { userId, expires: { gt: new Date() } }
ActiveSessions(userId) ==
  { r \in sessions.rows : r.userId = userId /\ r.expires > sessions.now }

\* the call starts: expires is computed and the count is issued
CreateSession(p, userId) ==
  /\ sessions.procs[p].pc = "idle"
  /\ sessions.created + Cardinality({ q \in SessionCalls : sessions.procs[q].pc # "idle" }) < MaxCreated
  /\ sessions' = [sessions EXCEPT !.procs[p] =
                    [pc |-> "count", userId |-> userId,
                     expires |-> sessions.now + SESSION_TIMEOUT_MINUTES, oldest |-> NULL]]
  /\ UNCHANGED <<store, pc, req, searchTerms, results, total, calls, response, prev, http, bar>>

\* prisma.session.count answers: at the cap the oldest session is looked
\* for, below it the session is created
CountAnswers(p) ==
  /\ sessions.procs[p].pc = "count"
  /\ LET activeSessionsCount == Cardinality(ActiveSessions(sessions.procs[p].userId))
     IN sessions' = [sessions EXCEPT !.procs[p].pc =
                       IF activeSessionsCount >= MAX_CONCURRENT_SESSIONS
                       THEN "findFirst" ELSE "create"]
  /\ UNCHANGED <<store, pc, req, searchTerms, results, total, calls, response, prev, http, bar>>

\* prisma.session.findFirst answers, orderBy createdAt asc: a row with the
\* least createdAt, or null
FindFirstAnswers(p) ==
  /\ sessions.procs[p].pc = "findFirst"
  /\ LET active == ActiveSessions(sessions.procs[p].userId)
     IN IF active = {}
        THEN sessions' = [sessions EXCEPT !.procs[p].pc = "create"]
        ELSE \E r \in active :
               /\ \A x \in active : r.createdAt <= x.createdAt
               /\ sessions' = [sessions EXCEPT !.procs[p].pc = "delete",
                                               !.procs[p].oldest = Some(r.id)]
  /\ UNCHANGED <<store, pc, req, searchTerms, results, total, calls, response, prev, http, bar>>

\* prisma.session.delete answers: the row is deleted, or the call fails
\* when the row is no longer there
DeleteAnswers(p) ==
  /\ sessions.procs[p].pc = "delete"
  /\ LET id == sessions.procs[p].oldest[1]
     IN IF \E r \in sessions.rows : r.id = id
        THEN sessions' = [sessions EXCEPT !.rows = { r \in sessions.rows : r.id # id },
                                          !.procs[p].pc = "create"]
        ELSE sessions' = [sessions EXCEPT !.procs[p] = IdleCall]
  /\ UNCHANGED <<store, pc, req, searchTerms, results, total, calls, response, prev, http, bar>>

\* prisma.session.create answers and the call returns the session
CreateAnswers(p) ==
  /\ sessions.procs[p].pc = "create"
  /\ sessions' = [sessions EXCEPT
       !.rows = sessions.rows \cup
                  { [id |-> sessions.created + 1, userId |-> sessions.procs[p].userId,
                     createdAt |-> sessions.now, expires |-> sessions.procs[p].expires] },
       !.created = sessions.created + 1,
       !.procs[p] = IdleCall]
  /\ UNCHANGED <<store, pc, req, searchTerms, results, total, calls, response, prev, http, bar>>

\* time passes
Tick ==
  /\ sessions.now < MaxTicks * TickMinutes
  /\ sessions' = [sessions EXCEPT !.now = sessions.now + TickMinutes]
  /\ UNCHANGED <<store, pc, req, searchTerms, results, total, calls, response, prev, http, bar>>

InitSessions ==
  /\ store = KeywordStore
  /\ pc = "idle"
  /\ req = NoRequest
  /\ searchTerms = <<>>
  /\ results = <<>>
  /\ total = 0
  /\ calls = <<>>
  /\ response = NoResponse
  /\ prev = NoRequest
  /\ http = NoHttp
  /\ bar = NoBar
  /\ sessions = [NoSessions EXCEPT !.procs = [p \in SessionCalls |-> IdleCall]]

NextSessions ==
  \/ \E p \in SessionCalls, u \in Users : CreateSession(p, u)
  \/ \E p \in SessionCalls : CountAnswers(p)
  \/ \E p \in SessionCalls : FindFirstAnswers(p)
  \/ \E p \in SessionCalls : DeleteAnswers(p)
  \/ \E p \in SessionCalls : CreateAnswers(p)
  \/ Tick

SpecSessions == InitSessions /\ [][NextSessions]_vars

(***************************************************************************)
(* C29: after any sequence of createSession calls, including calls for the *)
(* same user whose steps interleave, a user never has more than            *)
(* MAX_CONCURRENT_SESSIONS unexpired sessions.                             *)
(***************************************************************************)
C29_SessionCap ==
  \A u \in Users : Cardinality(ActiveSessions(u)) <= MAX_CONCURRENT_SESSIONS

\* what holds instead: each call under way at once can add one session
\* beyond the cap
C29_CapPlusCallsUnderWay ==
  \A u \in Users :
    Cardinality(ActiveSessions(u)) <= MAX_CONCURRENT_SESSIONS + Cardinality(SessionCalls) - 1

\* two calls for u1 both counted four sessions and both created one
C29_Witness ==
  /\ Cardinality(ActiveSessions("u1")) = MAX_CONCURRENT_SESSIONS + 1
  /\ \A p \in SessionCalls : sessions.procs[p].pc = "idle"
  /\ sessions.now = 0

====
